---- MODULE Spec2Model ----
(***************************************************************************)
(* SPDTools: the SPD record model (src/src/core/model.py, SPDDataModel).   *)
(*                                                                         *)
(* A Python list is a TLA+ sequence: list index i is sequence index i + 1. *)
(* Optional[List[int]] is a sequence too: None is the empty sequence; the  *)
(* code only ever tests _original_data by truthiness, under which None and *)
(* [] are the same.                                                        *)
(*                                                                         *)
(* The field codec (src/src/core/parser, src/src/gui/tabs) is modelled     *)
(* further down: one request, drawn by the initial state, is applied to a  *)
(* loaded model and the image is parsed back.                              *)
(***************************************************************************)
EXTENDS Integers, Sequences, FiniteSets, TLC

VARIABLES _data, _original_data, _modified_bytes, _observers,
          call, before, emitted, delivered,
          request, reply, pc

vars == <<_data, _original_data, _modified_bytes, _observers,
          call, before, emitted, delivered,
          request, reply, pc>>

(***************************************************************************)
(* Program constants and the bounds of the model.                          *)
(***************************************************************************)
SPD_SIZE == 512

\* longest values list handed to set_bytes
MaxValues == 2

None == <<>>

\* list[i] of a Python list
At(list, i) == list[i + 1]

\* truthiness of an Optional[List[int]]
Truthy(list) == Len(list) > 0

\* list[i] = v on a Python list
ListSet(list, i, v) == [list EXCEPT ![i + 1] = v]

\* [0] * n
ZeroList(n) == [i \in 1 .. n |-> 0]

(***************************************************************************)
(* Inputs of the calls.                                                    *)
(***************************************************************************)
\* values around both ends of the byte range
ByteArgs == {-1, 0, 255, 256}

\* offsets around both ends of the image
ByteOffsets == {-1, 0, SPD_SIZE - 1, SPD_SIZE}

\* set_byte(offset, value): every value at the first and the last offset, a
\* byte at the offsets next to them
SetByteInputs ==
    ({0, SPD_SIZE - 1} \X ByteArgs) \cup ({-1, SPD_SIZE} \X {255})

\* n times the value v
Repeat(n, v) == [i \in 1 .. n |-> v]

\* up to MaxValues equal bytes
ByteRuns(v) == {Repeat(n, v) : n \in 0 .. MaxValues}

\* a run of 255 with one element, at any position, replaced by a value that
\* is no byte
BrokenRuns ==
    UNION {{[Repeat(n, 255) EXCEPT ![p] = bad] : p \in 1 .. n, bad \in {-1, 256}}
              : n \in 1 .. MaxValues}

\* set_bytes(offset, values): runs and broken runs at the start of the image,
\* runs before the start and at the last offset
SetBytesInputs ==
    ({0} \X (ByteRuns(0) \cup ByteRuns(255) \cup BrokenRuns))
        \cup ({-1, SPD_SIZE - 1} \X ByteRuns(255))

\* a list of n bytes: all zero (k = 0) or descending from 255 (k = 1)
ByteList(n, k) == [i \in 1 .. n |-> (k * (256 - i)) % 256]

\* load_from_list(data): two images, and lists one too short and one too long
LoadInputs ==
    {ByteList(SPD_SIZE, 0), ByteList(SPD_SIZE, 1),
     ByteList(SPD_SIZE - 1, 1), ByteList(SPD_SIZE + 1, 1)}

Callbacks == {"cb1", "cb2"}

(***************************************************************************)
(* DataChangeEvent                                                         *)
(***************************************************************************)
BYTE_CHANGED == "byte_changed"
RANGE_CHANGED == "range_changed"
DATA_LOADED == "data_loaded"
DATA_RESET == "data_reset"

ByteChangedEvent(offset, old_value, new_value) ==
    [change_type |-> BYTE_CHANGED, offset |-> offset,
     old_value |-> old_value, new_value |-> new_value]

RangeChangedEvent(offset, length) ==
    [change_type |-> RANGE_CHANGED, offset |-> offset, length |-> length]

PlainEvent(change_type) == [change_type |-> change_type]

(***************************************************************************)
(* The fields of the model a method reads and writes, and what a method    *)
(* hands back: the fields after the call, the returned value, and the      *)
(* events passed to _notify_observers, each with the fields as they were   *)
(* at that moment.                                                         *)
(***************************************************************************)
Fields(data, original_data, modified_bytes) ==
    [data |-> data, original_data |-> original_data, modified_bytes |-> modified_bytes]

Self == Fields(_data, _original_data, _modified_bytes)

Outcome(self, ret, events) == [self |-> self, ret |-> ret, events |-> events]

Emit(self, event) == <<[event |-> event, at |-> self]>>

\* where a model stands in its life: never loaded (or cleared), loaded and
\* unmodified (is_modified false), or modified
Lifecycle(self) ==
    IF ~Truthy(self.original_data) THEN "Empty"
    ELSE IF Cardinality(self.modified_bytes) > 0 THEN "Modified"
    ELSE "Loaded"

(***************************************************************************)
(* Observers                                                               *)
(***************************************************************************)
Elements(list) == {list[i] : i \in 1 .. Len(list)}

add_observer(observers, callback) ==
    IF callback \notin Elements(observers)
    THEN Append(observers, callback)
    ELSE observers

\* list.remove(x): drops the first occurrence of x
RECURSIVE ListRemove(_, _)
ListRemove(list, x) ==
    IF list = <<>> THEN <<>>
    ELSE IF Head(list) = x THEN Tail(list)
    ELSE <<Head(list)>> \o ListRemove(Tail(list), x)

remove_observer(observers, callback) ==
    IF callback \in Elements(observers)
    THEN ListRemove(observers, callback)
    ELSE observers

\* The calls made by one _notify_observers(event), in order.  raising is the
\* set of callbacks that raise an Exception when called; without the
\* try/except the first of them would end the loop.
RECURSIVE _notify_observers_unguarded(_, _, _)
_notify_observers_unguarded(observers, event, raising) ==
    IF observers = <<>> THEN <<>>
    ELSE LET callback == Head(observers)
             this == [callback |-> callback, event |-> event,
                      raised |-> callback \in raising]
         IN  IF callback \in raising THEN <<this>>
             ELSE <<this>> \o _notify_observers_unguarded(Tail(observers), event, raising)

RECURSIVE _notify_observers(_, _, _)
_notify_observers(observers, event, raising) ==
    IF observers = <<>> THEN <<>>
    ELSE LET callback == Head(observers)
             this == [callback |-> callback, event |-> event,
                      raised |-> callback \in raising]
         IN  <<this>> \o _notify_observers(Tail(observers), event, raising)

(***************************************************************************)
(* The mutators of SPDDataModel                                            *)
(***************************************************************************)
\* load_from_list testing only for too short an input
load_from_list_min_length(self, data) ==
    IF Len(data) < SPD_SIZE
    THEN Outcome(self, FALSE, <<>>)
    ELSE LET after == Fields(data, data, {})
         IN  Outcome(after, TRUE, Emit(after, PlainEvent(DATA_LOADED)))

\* load_from_list keeping the modification marks
load_from_list_keeps_marks(self, data) ==
    IF Len(data) # SPD_SIZE
    THEN Outcome(self, FALSE, <<>>)
    ELSE LET after == Fields(data, data, self.modified_bytes)
         IN  Outcome(after, TRUE, Emit(after, PlainEvent(DATA_LOADED)))

load_from_list(self, data) ==
    IF Len(data) # SPD_SIZE
    THEN Outcome(self, FALSE, <<>>)
    ELSE LET after == Fields(data, data, {})
         IN  Outcome(after, TRUE, Emit(after, PlainEvent(DATA_LOADED)))

\* the modification marks after a write to offset (lines 202-206)
SetByteMarks(self, data, offset) ==
    IF Truthy(self.original_data)
    THEN IF At(data, offset) # At(self.original_data, offset)
         THEN self.modified_bytes \cup {offset}
         ELSE IF offset \in self.modified_bytes
              THEN self.modified_bytes \ {offset}
              ELSE self.modified_bytes
    ELSE self.modified_bytes

\* set_byte that never takes a mark back
set_byte_keeps_mark(self, offset, value) ==
    IF ~(0 <= offset /\ offset < SPD_SIZE) \/ ~(0 <= value /\ value <= 255)
    THEN Outcome(self, FALSE, <<>>)
    ELSE LET old_value == At(self.data, offset)
         IN  IF old_value = value
             THEN Outcome(self, TRUE, <<>>)
             ELSE LET data == ListSet(self.data, offset, value)
                      modified_bytes ==
                          IF Truthy(self.original_data)
                             /\ At(data, offset) # At(self.original_data, offset)
                          THEN self.modified_bytes \cup {offset}
                          ELSE self.modified_bytes
                      after == Fields(data, self.original_data, modified_bytes)
                  IN  Outcome(after, TRUE,
                              Emit(after, ByteChangedEvent(offset, old_value, value)))

\* set_byte with the value test off by one
set_byte_value_off_by_one(self, offset, value) ==
    IF ~(0 <= offset /\ offset < SPD_SIZE) \/ ~(0 <= value /\ value <= 256)
    THEN Outcome(self, FALSE, <<>>)
    ELSE LET old_value == At(self.data, offset)
         IN  IF old_value = value
             THEN Outcome(self, TRUE, <<>>)
             ELSE LET data == ListSet(self.data, offset, value)
                      after == Fields(data, self.original_data,
                                      SetByteMarks(self, data, offset))
                  IN  Outcome(after, TRUE,
                              Emit(after, ByteChangedEvent(offset, old_value, value)))

\* set_byte without the early return for an unchanged value
set_byte_no_early_return(self, offset, value) ==
    IF ~(0 <= offset /\ offset < SPD_SIZE) \/ ~(0 <= value /\ value <= 255)
    THEN Outcome(self, FALSE, <<>>)
    ELSE LET old_value == At(self.data, offset)
             data == ListSet(self.data, offset, value)
             after == Fields(data, self.original_data,
                             SetByteMarks(self, data, offset))
         IN  Outcome(after, TRUE,
                     Emit(after, ByteChangedEvent(offset, old_value, value)))

\* set_byte notifying before it updates the modification marks
set_byte_notifies_early(self, offset, value) ==
    IF ~(0 <= offset /\ offset < SPD_SIZE) \/ ~(0 <= value /\ value <= 255)
    THEN Outcome(self, FALSE, <<>>)
    ELSE LET old_value == At(self.data, offset)
         IN  IF old_value = value
             THEN Outcome(self, TRUE, <<>>)
             ELSE LET data == ListSet(self.data, offset, value)
                      written == Fields(data, self.original_data, self.modified_bytes)
                      after == Fields(data, self.original_data,
                                      SetByteMarks(self, data, offset))
                  IN  Outcome(after, TRUE,
                              Emit(written, ByteChangedEvent(offset, old_value, value)))

set_byte(self, offset, value) ==
    IF ~(0 <= offset /\ offset < SPD_SIZE) \/ ~(0 <= value /\ value <= 255)
    THEN Outcome(self, FALSE, <<>>)
    ELSE LET old_value == At(self.data, offset)
         IN  IF old_value = value
             THEN Outcome(self, TRUE, <<>>)
             ELSE LET data == ListSet(self.data, offset, value)
                      modified_bytes ==
                          IF Truthy(self.original_data)
                          THEN IF At(data, offset) # At(self.original_data, offset)
                               THEN self.modified_bytes \cup {offset}
                               ELSE IF offset \in self.modified_bytes
                                    THEN self.modified_bytes \ {offset}
                                    ELSE self.modified_bytes
                          ELSE self.modified_bytes
                      after == Fields(data, self.original_data, modified_bytes)
                  IN  Outcome(after, TRUE,
                              Emit(after, ByteChangedEvent(offset, old_value, value)))

\* the update loop of set_bytes, from index i on
RECURSIVE set_bytes_update(_, _, _, _)
set_bytes_update(self, offset, values, i) ==
    IF i >= Len(values) THEN self
    ELSE LET pos == offset + i
             value == At(values, i)
             data == ListSet(self.data, pos, value)
             modified_bytes ==
                 IF Truthy(self.original_data)
                 THEN IF At(data, pos) # At(self.original_data, pos)
                      THEN self.modified_bytes \cup {pos}
                      ELSE IF pos \in self.modified_bytes
                           THEN self.modified_bytes \ {pos}
                           ELSE self.modified_bytes
                 ELSE self.modified_bytes
         IN  set_bytes_update(Fields(data, self.original_data, modified_bytes),
                              offset, values, i + 1)

\* index of the first value from i on that is no byte, len(values) if none
RECURSIVE FirstInvalid(_, _)
FirstInvalid(values, i) ==
    IF i >= Len(values) \/ ~(0 <= At(values, i) /\ At(values, i) <= 255)
    THEN i
    ELSE FirstInvalid(values, i + 1)

\* set_bytes testing each value only when it is about to write it
set_bytes_checks_while_writing(self, offset, values) ==
    IF offset < 0 \/ offset + Len(values) > SPD_SIZE
    THEN Outcome(self, FALSE, <<>>)
    ELSE LET n == FirstInvalid(values, 0)
             after == set_bytes_update(self, offset, SubSeq(values, 1, n), 0)
         IN  IF n < Len(values)
             THEN Outcome(after, FALSE, <<>>)
             ELSE Outcome(after, TRUE,
                          Emit(after, RangeChangedEvent(offset, Len(values))))

\* set_byte for every value from index i on
RECURSIVE set_byte_each(_, _, _, _)
set_byte_each(self, offset, values, i) ==
    IF i >= Len(values) THEN Outcome(self, TRUE, <<>>)
    ELSE LET one == set_byte(self, offset + i, At(values, i))
             rest == set_byte_each(one.self, offset, values, i + 1)
         IN  Outcome(rest.self, TRUE, one.events \o rest.events)

\* set_bytes written as a loop of set_byte calls
set_bytes_per_byte(self, offset, values) ==
    IF offset < 0 \/ offset + Len(values) > SPD_SIZE
    THEN Outcome(self, FALSE, <<>>)
    ELSE IF \E i \in 0 .. Len(values) - 1 : ~(0 <= At(values, i) /\ At(values, i) <= 255)
    THEN Outcome(self, FALSE, <<>>)
    ELSE set_byte_each(self, offset, values, 0)

set_bytes(self, offset, values) ==
    IF offset < 0 \/ offset + Len(values) > SPD_SIZE
    THEN Outcome(self, FALSE, <<>>)
    ELSE IF \E i \in 0 .. Len(values) - 1 : ~(0 <= At(values, i) /\ At(values, i) <= 255)
    THEN Outcome(self, FALSE, <<>>)
    ELSE LET after == set_bytes_update(self, offset, values, 0)
         IN  Outcome(after, TRUE,
                     Emit(after, RangeChangedEvent(offset, Len(values))))

\* reset_to_original keeping the modification marks
reset_to_original_keeps_marks(self) ==
    IF ~Truthy(self.original_data)
    THEN Outcome(self, FALSE, <<>>)
    ELSE LET after == Fields(self.original_data, self.original_data, self.modified_bytes)
         IN  Outcome(after, TRUE, Emit(after, PlainEvent(DATA_RESET)))

reset_to_original(self) ==
    IF ~Truthy(self.original_data)
    THEN Outcome(self, FALSE, <<>>)
    ELSE LET after == Fields(self.original_data, self.original_data, {})
         IN  Outcome(after, TRUE, Emit(after, PlainEvent(DATA_RESET)))

reset_byte(self, offset) ==
    IF ~Truthy(self.original_data) \/ ~(0 <= offset /\ offset < SPD_SIZE)
    THEN Outcome(self, FALSE, <<>>)
    ELSE set_byte(self, offset, At(self.original_data, offset))

\* clear() returns nothing; ret is TRUE for "returned"
clear(self) ==
    LET after == Fields(ZeroList(SPD_SIZE), None, {})
    IN  Outcome(after, TRUE, Emit(after, PlainEvent(DATA_RESET)))

(***************************************************************************)
(* State machine: one SPDDataModel and its callers.                        *)
(*   call       the last call made on the model, with its arguments and    *)
(*              returned value                                             *)
(*   before     where the model stood in its life when that call was made  *)
(*   emitted    the events that call passed to _notify_observers, each     *)
(*              with the fields of the model at that moment                *)
(*   delivered  the callback invocations that call caused, in order        *)
(*   request    the field edit or parse asked for (none in this machine)   *)
(*   reply      what that request gave                                     *)
(***************************************************************************)
NoRequest == [op |-> "none"]

NoReply == [done |-> FALSE]

\* no method is part-way through: every call runs from its start to its end
\* in one step
NoThreads == [worker |-> "none", ui |-> "none"]

Init ==
    /\ _data = ZeroList(SPD_SIZE)
    /\ _original_data = None
    /\ _observers = <<>>
    /\ _modified_bytes = {}
    /\ call = [op |-> "__init__"]
    /\ before = "Empty"
    /\ emitted = <<>>
    /\ delivered = <<>>
    /\ request = NoRequest
    /\ reply = NoReply
    /\ pc = NoThreads

RECURSIVE Notifications(_, _, _)
Notifications(observers, events, raising) ==
    IF events = <<>> THEN <<>>
    ELSE _notify_observers(observers, Head(events).event, raising)
             \o Notifications(observers, Tail(events), raising)

\* A mutator ran to its end with the given outcome; each callback it called
\* either returned or raised.
Effect(out) ==
    /\ _data' = out.self.data
    /\ _original_data' = out.self.original_data
    /\ _modified_bytes' = out.self.modified_bytes
    /\ before' = Lifecycle(Self)
    /\ emitted' = out.events
    /\ \E raising \in (IF out.events = <<>> THEN {{}} ELSE SUBSET Elements(_observers)) :
           delivered' = Notifications(_observers, out.events, raising)
    /\ UNCHANGED <<_observers, pc>>

Mutate(out) == Effect(out) /\ UNCHANGED <<request, reply>>

LoadFromList ==
    \E data \in LoadInputs :
        LET out == load_from_list(Self, data)
        IN  /\ Mutate(out)
            /\ call' = [op |-> "load_from_list", data |-> data, ret |-> out.ret]

SetByte ==
    \E input \in SetByteInputs :
        LET offset == input[1]
            value == input[2]
            out == set_byte(Self, offset, value)
        IN  /\ Mutate(out)
            /\ call' = [op |-> "set_byte", offset |-> offset, value |-> value,
                        ret |-> out.ret]

SetBytes ==
    \E input \in SetBytesInputs :
        LET offset == input[1]
            values == input[2]
            out == set_bytes(Self, offset, values)
        IN  /\ Mutate(out)
            /\ call' = [op |-> "set_bytes", offset |-> offset, values |-> values,
                        ret |-> out.ret]

ResetToOriginal ==
    LET out == reset_to_original(Self)
    IN  /\ Mutate(out)
        /\ call' = [op |-> "reset_to_original", ret |-> out.ret]

ResetByte ==
    \E offset \in ByteOffsets :
        LET out == reset_byte(Self, offset)
        IN  /\ Mutate(out)
            /\ call' = [op |-> "reset_byte", offset |-> offset, ret |-> out.ret]

Clear ==
    LET out == clear(Self)
    IN  /\ Mutate(out)
        /\ call' = [op |-> "clear"]

AddObserver ==
    \E callback \in Callbacks :
        /\ _observers' = add_observer(_observers, callback)
        /\ call' = [op |-> "add_observer", callback |-> callback]
        /\ before' = Lifecycle(Self)
        /\ emitted' = <<>>
        /\ delivered' = <<>>
        /\ UNCHANGED <<_data, _original_data, _modified_bytes, request, reply, pc>>

RemoveObserver ==
    \E callback \in Callbacks :
        /\ _observers' = remove_observer(_observers, callback)
        /\ call' = [op |-> "remove_observer", callback |-> callback]
        /\ before' = Lifecycle(Self)
        /\ emitted' = <<>>
        /\ delivered' = <<>>
        /\ UNCHANGED <<_data, _original_data, _modified_bytes, request, reply, pc>>

Next ==
    \/ LoadFromList
    \/ SetByte
    \/ SetBytes
    \/ ResetToOriginal
    \/ ResetByte
    \/ Clear
    \/ AddObserver
    \/ RemoveObserver

Spec == Init /\ [][Next]_vars

(***************************************************************************)
(* Properties                                                              *)
(***************************************************************************)
ValidOffset(offset) == 0 <= offset /\ offset < SPD_SIZE

ValidByte(value) == 0 <= value /\ value <= 255

\* offset is marked exactly when a baseline is present and the byte differs
DirtyInvariant(self) ==
    \A offset \in 0 .. SPD_SIZE - 1 :
        offset \in self.modified_bytes
            <=> (Truthy(self.original_data)
                 /\ At(self.data, offset) # At(self.original_data, offset))

NoEffect ==
    /\ UNCHANGED <<_data, _original_data, _modified_bytes>>
    /\ emitted' = <<>>
    /\ delivered' = <<>>

\* C1: in every reachable state, an offset is in _modified_bytes if and only
\* if a baseline is present and the image byte differs from the baseline byte.
C1_DirtySetInvariant == DirtyInvariant(Self)

\* a set_byte put a modified byte back to its baseline value while another
\* byte stays modified
C1_Witness ==
    /\ call.op = "set_byte"
    /\ call.ret
    /\ emitted # <<>>
    /\ before = "Modified"
    /\ Truthy(_original_data)
    /\ At(_data, call.offset) = At(_original_data, call.offset)
    /\ call.offset \notin _modified_bytes
    /\ _modified_bytes # {}

\* C2: a set_bytes call whose range leaves [0, 512) or that has a value
\* outside 0..255 at any position returns failure, changes neither image,
\* baseline nor modification marks, and emits no event.
C2_SetBytesAtomic ==
    [][(/\ call'.op = "set_bytes"
        /\ \/ call'.offset < 0
           \/ call'.offset + Len(call'.values) > SPD_SIZE
           \/ \E i \in 1 .. Len(call'.values) : ~ValidByte(call'.values[i]))
       => (~call'.ret /\ NoEffect)]_vars

\* a set_bytes failed on its last value; the valid value before it would have
\* changed the image
C2_Witness ==
    /\ call.op = "set_bytes"
    /\ ~call.ret
    /\ ValidOffset(call.offset)
    /\ call.offset + Len(call.values) <= SPD_SIZE
    /\ Len(call.values) >= 2
    /\ ValidByte(call.values[1])
    /\ ~ValidByte(call.values[Len(call.values)])
    /\ At(_data, call.offset) # call.values[1]
    /\ _observers # <<>>

\* C3: a failing load_from_list (length other than 512), set_byte (offset or
\* value out of range) or reset_to_original (no baseline) returns failure,
\* changes neither image, baseline nor modification marks, and notifies nobody.
C3_FailedCallNoEffect ==
    [][(\/ call'.op = "load_from_list" /\ Len(call'.data) # SPD_SIZE
        \/ call'.op = "set_byte"
               /\ (~ValidOffset(call'.offset) \/ ~ValidByte(call'.value))
        \/ call'.op = "reset_to_original" /\ ~Truthy(_original_data))
       => (~call'.ret /\ NoEffect)]_vars

\* a set_byte with a value above 255 failed on a modified model with observers
C3_Witness ==
    /\ call.op = "set_byte"
    /\ ~call.ret
    /\ ValidOffset(call.offset)
    /\ call.value > 255
    /\ before = "Modified"
    /\ _modified_bytes # {}
    /\ _observers # <<>>

\* C4: a load_from_list of exactly 512 bytes succeeds; afterwards image and
\* baseline equal the input, no byte is marked, and the one event emitted is
\* DATA_LOADED, emitted when image, baseline and marks were already replaced.
C4_LoadReplaces ==
    (call.op = "load_from_list" /\ Len(call.data) = SPD_SIZE)
        => /\ call.ret
           /\ _data = call.data
           /\ _original_data = call.data
           /\ _modified_bytes = {}
           /\ emitted = <<[event |-> PlainEvent(DATA_LOADED),
                           at |-> Fields(call.data, call.data, {})]>>

\* a modified model was loaded with other bytes, with an observer registered
C4_Witness ==
    /\ call.op = "load_from_list"
    /\ call.ret
    /\ before = "Modified"
    /\ call.data = ByteList(SPD_SIZE, 1)
    /\ delivered # <<>>

\* C5: set_byte(o, image[o]) returns success, changes neither image nor
\* modification marks, and emits no event.
C5_SetByteIdempotent ==
    [][(/\ call'.op = "set_byte"
        /\ ValidOffset(call'.offset)
        /\ call'.value = At(_data, call'.offset))
       => (call'.ret /\ NoEffect)]_vars

\* a modified byte was set to the value it already had
C5_Witness ==
    /\ call.op = "set_byte"
    /\ call.ret
    /\ ValidOffset(call.offset)
    /\ call.value = At(_data, call.offset)
    /\ emitted = <<>>
    /\ call.offset \in _modified_bytes
    /\ _observers # <<>>

\* C6: a valid set_byte with a value other than the current byte emits exactly
\* one BYTE_CHANGED event with the offset, the byte before the call and the new
\* value; at that moment the image holds the new value, only that byte has
\* changed, and the modification marks satisfy the dirty-set invariant.
C6_SetByteEvent ==
    [][(/\ call'.op = "set_byte"
        /\ ValidOffset(call'.offset)
        /\ ValidByte(call'.value)
        /\ call'.value # At(_data, call'.offset))
       => /\ call'.ret
          /\ Len(emitted') = 1
          /\ emitted'[1].event =
                 ByteChangedEvent(call'.offset, At(_data, call'.offset), call'.value)
          /\ emitted'[1].at.data = ListSet(_data, call'.offset, call'.value)
          /\ emitted'[1].at.original_data = _original_data
          /\ DirtyInvariant(emitted'[1].at)
          /\ _data' = emitted'[1].at.data]_vars

\* a set_byte changed a byte of a loaded model and its event went to an observer
C6_Witness ==
    /\ call.op = "set_byte"
    /\ call.ret
    /\ Len(emitted) = 1
    /\ emitted[1].event.change_type = BYTE_CHANGED
    /\ emitted[1].event.old_value # emitted[1].event.new_value
    /\ call.offset \in _modified_bytes
    /\ delivered # <<>>

\* C7: a successful set_bytes emits exactly one event, RANGE_CHANGED with the
\* call's offset and the number of values, and it is emitted when all bytes of
\* the range and their modification marks are already updated.
C7_SetBytesOneEvent ==
    (call.op = "set_bytes" /\ call.ret)
        => /\ Len(emitted) = 1
           /\ emitted[1].event = RangeChangedEvent(call.offset, Len(call.values))
           /\ \A i \in 1 .. Len(call.values) :
                  At(emitted[1].at.data, call.offset + i - 1) = call.values[i]
           /\ DirtyInvariant(emitted[1].at)
           /\ emitted[1].at = Self

\* a set_bytes wrote two or more bytes that now differ from the baseline
C7_Witness ==
    /\ call.op = "set_bytes"
    /\ call.ret
    /\ Len(call.values) >= 2
    /\ \A i \in 1 .. Len(call.values) : call.offset + i - 1 \in _modified_bytes
    /\ delivered # <<>>

\* C8: reset_to_original with a baseline makes the image equal to the
\* baseline, takes all marks back, leaves the baseline as it is and emits one
\* DATA_RESET; without a baseline it fails without effect.  No edit (set_byte,
\* set_bytes, reset_byte) changes the baseline, so the bytes restored are the
\* loaded ones.
C8_ResetRestores ==
    [][/\ call'.op = "reset_to_original" =>
            IF Truthy(_original_data)
            THEN /\ call'.ret
                 /\ _data' = _original_data
                 /\ _original_data' = _original_data
                 /\ _modified_bytes' = {}
                 /\ emitted' = <<[event |-> PlainEvent(DATA_RESET),
                                  at |-> Fields(_original_data, _original_data, {})]>>
            ELSE ~call'.ret /\ NoEffect
       /\ call'.op \in {"set_byte", "set_bytes", "reset_byte"} =>
            _original_data' = _original_data]_vars

\* a modified model was reset to the bytes it was loaded with
C8_Witness ==
    /\ call.op = "reset_to_original"
    /\ call.ret
    /\ before = "Modified"
    /\ _data = ByteList(SPD_SIZE, 1)
    /\ _original_data = _data
    /\ _modified_bytes = {}

\* C9: when a callback raises during a notification, every registered
\* observer is still called once with the event, in registration order, and
\* the model is left as the mutator made it.
C9_ObserverFaultIsolation ==
    emitted # <<>> =>
        /\ Len(emitted) = 1
        /\ Len(delivered) = Len(_observers)
        /\ \A i \in 1 .. Len(_observers) :
               /\ delivered[i].callback = _observers[i]
               /\ delivered[i].event = emitted[1].event
        /\ Self = emitted[1].at

\* the first of two observers raised and the second was still called
C9_Witness ==
    /\ call.op = "set_byte"
    /\ Len(_observers) = 2
    /\ Len(delivered) = 2
    /\ delivered[1].raised
    /\ ~delivered[2].raised
    /\ call.offset \in _modified_bytes

\* C10: the image has exactly 512 bytes in every reachable state, and a
\* load_from_list of any other length is refused.
C10_ImageLength ==
    /\ Len(_data) = SPD_SIZE
    /\ Len(_original_data) \in {0, SPD_SIZE}
    /\ (call.op = "load_from_list" /\ Len(call.data) # SPD_SIZE) => ~call.ret

\* a load of 513 bytes was refused by a loaded model
C10_Witness ==
    /\ call.op = "load_from_list"
    /\ Len(call.data) = SPD_SIZE + 1
    /\ ~call.ret
    /\ Truthy(_original_data)
    /\ Len(_data) = SPD_SIZE

(***************************************************************************)
(* SPD byte layout and time bases (src/src/utils/constants.py).            *)
(***************************************************************************)
DRAM_TYPE == 2
TCK_MIN == 18
TAA_MIN == 24
TRCD_MIN == 25
TRP_MIN == 26
TRAS_TRC_HIGH == 27
TRAS_MIN_LOW == 28
TRC_MIN_LOW == 29
TRFC1_LOW == 30
TRFC1_HIGH == 31
TRFC2_LOW == 32
TRFC2_HIGH == 33
TRFC4_LOW == 34
TRFC4_HIGH == 35
TFAW_HIGH == 36
TFAW_LOW == 37
TRRD_S_MIN == 38
TRRD_L_MIN == 39
TCCD_L_MIN == 40
TWR_MIN_HIGH == 41
TWR_MIN_LOW == 42
TWTR_S_MIN == 43
TWTR_L_MIN == 44
TRC_MIN_FTB == 120
TRP_MIN_FTB == 121
TRCD_MIN_FTB == 122
TAA_MIN_FTB == 123
TCK_MIN_FTB == 125
DDR4_TYPE == 12
MTB == 125
FTB == 1

(***************************************************************************)
(* Times are floats in nanoseconds in the program.  Every time the model   *)
(* handles is the double nearest to p/1000 for an integer p of             *)
(* picoseconds, and it is carried as that p: distinct p give distinct      *)
(* doubles, so equality of times is equality of their p.  The two places   *)
(* where the rounding of the doubles decides the result are computed       *)
(* exactly in integers: value_ns * 1000 (TimesThousandError) and           *)
(* round(tAA / tCK) (RoundQuotient).                                       *)
(***************************************************************************)
Abs(n) == IF n < 0 THEN -n ELSE n

RECURSIVE FloorLog2(_)
FloorLog2(n) == IF n < 2 THEN 0 ELSE 1 + FloorLog2(n \div 2)

RECURSIVE Pow2Mod(_, _)
Pow2Mod(k, m) == IF k = 0 THEN 1 % m ELSE (2 * Pow2Mod(k - 1, m)) % m

RECURSIVE Doublings(_)
Doublings(p) == IF p >= 1000 THEN 0 ELSE 1 + Doublings(2 * p)

\* the binary exponent of the double nearest p/1000, p > 0
Exponent(p) == IF p >= 1000 THEN FloorLog2(p \div 1000) ELSE -Doublings(p)

\* p * 2^k - 1000 * m, where m / 2^k is the double nearest p/1000 with its
\* 53-bit significand m: how far that double lies below p/1000, p > 0
Shortfall(p) ==
    LET k == 52 - Exponent(p)
        r == ((p % 1000) * Pow2Mod(k, 1000)) % 1000
    IN  IF r < 500 THEN r ELSE r - 1000

\* the sign of value_ns * 1000 - p, for value_ns the double nearest p/1000
\* and the product rounded to a double, p >= 0
TimesThousandError(p) ==
    IF p = 0 \/ Shortfall(p) = 0 THEN 0
    ELSE LET L == FloorLog2(p)
             T == 2 ^ (L - Exponent(p) - 1)
             rem == Shortfall(p)
         IN  IF rem > 0
             THEN IF rem > (IF p = 2 ^ L THEN T \div 2 ELSE T) THEN -1 ELSE 0
             ELSE IF -rem > T THEN 1 ELSE 0

\* int(x / y) in the place of round(x / y)
RoundQuotient_truncates(a, c) == a \div c

\* round(x / y) for x, y the doubles nearest a/1000 and c/1000, the quotient
\* rounded to a double and round() taking a tie to the even integer;
\* a >= 0, c > 0.  Only at a tie of a/c can the rounding of x, y and of the
\* quotient decide the result.
RoundQuotient(a, c) ==
    LET n == a \div c
        twice == 2 * (a - n * c)
    IN  IF twice < c THEN n
        ELSE IF twice > c THEN n + 1
        ELSE LET ea == Exponent(a)
                 ec == Exponent(c)
                 d == ec - ea
                 D == a * Shortfall(c) * (2 ^ (IF d > 0 THEN d ELSE 0))
                        - c * Shortfall(a) * (2 ^ (IF d < 0 THEN -d ELSE 0))
                 et == FloorLog2(2 * n + 1) - 1
                 s == et - 1 - (IF ea < ec THEN ea ELSE ec)
                        - (IF D < 0 /\ n = 0 THEN 1 ELSE 0)
                 ulp == IF s >= 0 THEN c * c * (2 ^ s) ELSE (c * c) \div (2 ^ (-s))
             IN  IF Abs(D) <= ulp
                 THEN IF n % 2 = 0 THEN n ELSE n + 1
                 ELSE IF D > 0 THEN n + 1 ELSE n

(***************************************************************************)
(* Timing codec: TimingTab._write_timing (src/src/gui/tabs/timing.py) and  *)
(* DDR4Parser.parse_timings (src/src/core/parser/ddr4.py).                 *)
(***************************************************************************)
get_byte(self, offset) ==
    IF 0 <= offset /\ offset < SPD_SIZE THEN At(self.data, offset) ELSE 0

\* one more set_byte after the calls that gave out; the handlers ignore
\* what set_byte returns
then_set_byte(out, offset, value) ==
    LET next == set_byte(out.self, offset, value)
    IN  Outcome(next.self, TRUE, out.events \o next.events)

\* _write_timing writing the high nibble of tRAS where that of tRC lives
_write_timing_wrong_nibble(self, key, value_ns) ==
    LET mag == Abs(value_ns)
        sign == IF value_ns < 0 THEN -1 ELSE 1
        value_ps == IF TimesThousandError(mag) < 0 THEN mag - 1 ELSE mag
        mtb_value == sign * (value_ps \div MTB)
        ftb_value == sign * ((value_ps % MTB) \div FTB)
        ftb_byte == ftb_value % 256
        high_nibble == (mtb_value \div 256) % 16
        low_byte == mtb_value % 256
        current_27 == get_byte(self, TRAS_TRC_HIGH)
        start == Outcome(self, TRUE, <<>>)
    IN  CASE key = "tCK" ->
                 then_set_byte(then_set_byte(start, TCK_MIN, mtb_value),
                               TCK_MIN_FTB, ftb_byte)
          [] key = "tAA" ->
                 then_set_byte(then_set_byte(start, TAA_MIN, mtb_value),
                               TAA_MIN_FTB, ftb_byte)
          [] key = "tRCD" ->
                 then_set_byte(then_set_byte(start, TRCD_MIN, mtb_value),
                               TRCD_MIN_FTB, ftb_byte)
          [] key = "tRP" ->
                 then_set_byte(then_set_byte(start, TRP_MIN, mtb_value),
                               TRP_MIN_FTB, ftb_byte)
          [] key = "tRAS" ->
                 then_set_byte(
                     then_set_byte(start, TRAS_TRC_HIGH,
                                   (current_27 % 16) + high_nibble * 16),
                     TRAS_MIN_LOW, low_byte)
          [] key = "tRC" ->
                 then_set_byte(
                     then_set_byte(
                         then_set_byte(start, TRAS_TRC_HIGH,
                                       (current_27 % 16) + high_nibble * 16),
                         TRC_MIN_LOW, low_byte),
                     TRC_MIN_FTB, ftb_byte)
          [] OTHER -> start

\* value_ns is given as the integer p of picoseconds whose nearest double
\* p/1000 is the float passed.  value_ps is the whole part of the magnitude
\* of value_ns * 1000; int() truncates towards zero, so the quotient and the
\* remainder by MTB carry the sign.  |ftb_value| < 125, so neither wrap
\* branch of the source is ever taken.
_write_timing(self, key, value_ns) ==
    LET mag == Abs(value_ns)
        sign == IF value_ns < 0 THEN -1 ELSE 1
        value_ps == IF TimesThousandError(mag) < 0 THEN mag - 1 ELSE mag
        mtb_value == sign * (value_ps \div MTB)
        ftb_raw == sign * ((value_ps % MTB) \div FTB)
        ftb_value == IF ftb_raw > 127 THEN ftb_raw - 256
                     ELSE IF ftb_raw < -128 THEN ftb_raw + 256
                     ELSE ftb_raw
        ftb_byte == ftb_value % 256
        high_nibble == (mtb_value \div 256) % 16
        low_byte == mtb_value % 256
        current_27 == get_byte(self, TRAS_TRC_HIGH)
        start == Outcome(self, TRUE, <<>>)
    IN  CASE key = "tCK" ->
                 then_set_byte(then_set_byte(start, TCK_MIN, mtb_value),
                               TCK_MIN_FTB, ftb_byte)
          [] key = "tAA" ->
                 then_set_byte(then_set_byte(start, TAA_MIN, mtb_value),
                               TAA_MIN_FTB, ftb_byte)
          [] key = "tRCD" ->
                 then_set_byte(then_set_byte(start, TRCD_MIN, mtb_value),
                               TRCD_MIN_FTB, ftb_byte)
          [] key = "tRP" ->
                 then_set_byte(then_set_byte(start, TRP_MIN, mtb_value),
                               TRP_MIN_FTB, ftb_byte)
          [] key = "tRAS" ->
                 then_set_byte(
                     then_set_byte(start, TRAS_TRC_HIGH,
                                   (current_27 \div 16) * 16 + high_nibble),
                     TRAS_MIN_LOW, low_byte)
          [] key = "tRC" ->
                 then_set_byte(
                     then_set_byte(
                         then_set_byte(start, TRAS_TRC_HIGH,
                                       (current_27 % 16) + high_nibble * 16),
                         TRC_MIN_LOW, low_byte),
                     TRC_MIN_FTB, ftb_byte)
          [] OTHER -> start

_signed_byte(value) == IF value < 128 THEN value ELSE value - 256

\* the sixteen times in picoseconds (the program divides each by 1000 to
\* get nanoseconds), and CL
parse_timings(data) ==
    LET tCK == At(data, TCK_MIN) * MTB + _signed_byte(At(data, TCK_MIN_FTB)) * FTB
        tAA == At(data, TAA_MIN) * MTB + _signed_byte(At(data, TAA_MIN_FTB)) * FTB
    IN  [tCK |-> tCK,
         tAA |-> tAA,
         tRCD |-> At(data, TRCD_MIN) * MTB
                      + _signed_byte(At(data, TRCD_MIN_FTB)) * FTB,
         tRP |-> At(data, TRP_MIN) * MTB
                      + _signed_byte(At(data, TRP_MIN_FTB)) * FTB,
         tRAS |-> ((At(data, TRAS_TRC_HIGH) % 16) * 256
                      + At(data, TRAS_MIN_LOW)) * MTB,
         tRC |-> ((At(data, TRAS_TRC_HIGH) \div 16) * 256
                      + At(data, TRC_MIN_LOW)) * MTB
                      + _signed_byte(At(data, TRC_MIN_FTB)) * FTB,
         tRFC1 |-> (At(data, TRFC1_HIGH) * 256 + At(data, TRFC1_LOW)) * MTB,
         tRFC2 |-> (At(data, TRFC2_HIGH) * 256 + At(data, TRFC2_LOW)) * MTB,
         tRFC4 |-> (At(data, TRFC4_HIGH) * 256 + At(data, TRFC4_LOW)) * MTB,
         tFAW |-> ((At(data, TFAW_HIGH) % 16) * 256 + At(data, TFAW_LOW)) * MTB,
         tRRD_S |-> At(data, TRRD_S_MIN) * MTB,
         tRRD_L |-> At(data, TRRD_L_MIN) * MTB,
         tCCD_L |-> At(data, TCCD_L_MIN) * MTB,
         tWR |-> ((At(data, TWR_MIN_HIGH) % 16) * 256
                      + At(data, TWR_MIN_LOW)) * MTB,
         tWTR_S |-> At(data, TWTR_S_MIN) * MTB,
         tWTR_L |-> At(data, TWTR_L_MIN) * MTB,
         CL |-> IF tCK > 0
                THEN IF tAA >= 0 THEN RoundQuotient(tAA, tCK)
                     ELSE -RoundQuotient(-tAA, tCK)
                ELSE 0]

(***************************************************************************)
(* A loaded model and one field edit or parse.  The initial state is the   *)
(* model after __init__ and load_from_list(image), with the request still  *)
(* to be served; the image stays in _original_data.                        *)
(***************************************************************************)
Loaded(image) ==
    /\ _data = image
    /\ _original_data = image
    /\ _modified_bytes = {}
    /\ _observers = <<>>
    /\ call = [op |-> "load_from_list", ret |-> TRUE]
    /\ before = "Empty"
    /\ emitted = Emit(Fields(image, image, {}), PlainEvent(DATA_LOADED))
    /\ delivered = <<>>
    /\ reply = NoReply
    /\ pc = NoThreads

\* an image of zeros but for the bytes given
Image(bytes) ==
    [i \in 1 .. SPD_SIZE |-> IF (i - 1) \in DOMAIN bytes THEN bytes[i - 1] ELSE 0]

TimingKeys == {"tCK", "tAA", "tRCD", "tRP", "tRAS", "tRC"}

FineKeys == {"tCK", "tAA", "tRCD", "tRP", "tRC"}

TimingOffsets ==
    {TCK_MIN, TAA_MIN, TRCD_MIN, TRP_MIN, TRAS_TRC_HIGH, TRAS_MIN_LOW, TRC_MIN_LOW,
     TRC_MIN_FTB, TRP_MIN_FTB, TRCD_MIN_FTB, TAA_MIN_FTB, TCK_MIN_FTB}

\* DDR4 images whose timing bytes all hold fill
TimingImages ==
    {Image((DRAM_TYPE :> DDR4_TYPE) @@ [o \in TimingOffsets |-> fill]) :
         fill \in {0, 165, 255}}

MaxTimingPs == 1030

\* every picosecond up to MaxTimingPs, and steps of the MTB grid around the
\* ends of the one-byte and of the twelve-bit fields
TimingValues ==
    (0 .. MaxTimingPs)
        \cup {m * MTB : m \in {-1, 255, 256, 291, 2730, 4095, 4096}}
        \cup {13750, 31999, 32002}

TimingRequests ==
    {[op |-> "_write_timing", key |-> key, value_ns |-> value] :
         key \in TimingKeys, value \in TimingValues}

InitTiming ==
    /\ request \in TimingRequests
    /\ \E image \in TimingImages : Loaded(image)

\* the save of the edit dialog: _write_timing, then the parse that the
\* refresh of the tab makes of the image; _write_timing has no return
\* statement and raises nothing, so its caller gets None
WriteTiming ==
    /\ request.op = "_write_timing"
    /\ ~reply.done
    /\ LET out == _write_timing(Self, request.key, request.value_ns)
       IN  /\ Effect(out)
           /\ reply' = [done |-> TRUE, timing |-> parse_timings(out.self.data)]
    /\ call' = [op |-> "_write_timing", key |-> request.key,
                value_ns |-> request.value_ns, ret |-> None]
    /\ UNCHANGED request

NextTiming == WriteTiming

SpecTiming == InitTiming /\ [][NextTiming]_vars

\* the largest MTB count a field holds
MaxMtb(key) == IF key \in {"tRAS", "tRC"} THEN 4095 ELSE 255

\* C11: writing x picoseconds to a timing field with _write_timing and parsing
\* the image again gives x, for every x >= 0 whose MTB count fits the field
\* and that is a multiple of 125 ps or, in a field with a fine-offset byte,
\* any whole number of picoseconds.
C11_TimingRoundTrip ==
    (/\ reply.done
     /\ request.op = "_write_timing"
     /\ request.value_ns >= 0
     /\ request.value_ns \div MTB <= MaxMtb(request.key)
     /\ (request.value_ns % MTB = 0 \/ request.key \in FineKeys))
        => reply.timing[request.key] = request.value_ns

\* C12: tRAS takes its high bits from bits 3..0 of byte 27 and tRC from bits
\* 7..4; a write of tRAS leaves the parsed tRC as it was in the image before,
\* and a write of tRC leaves the parsed tRAS, whatever the value written.
C12_SharedByteFrame ==
    (reply.done /\ request.op = "_write_timing") =>
        LET prior == parse_timings(_original_data)
            byte_27 == At(_data, TRAS_TRC_HIGH)
        IN  /\ reply.timing.tRAS \div (256 * MTB) = byte_27 % 16
            /\ (reply.timing.tRC - _signed_byte(At(_data, TRC_MIN_FTB)) * FTB)
                   \div (256 * MTB) = byte_27 \div 16
            /\ request.key = "tRAS" => reply.timing.tRC = prior.tRC
            /\ request.key = "tRC" => reply.timing.tRAS = prior.tRAS

\* tRAS was written with a new high nibble into a byte 27 whose other
\* nibble was not zero
C12_Witness ==
    /\ reply.done
    /\ request.op = "_write_timing"
    /\ request.key = "tRAS"
    /\ At(_original_data, TRAS_TRC_HIGH) = 165
    /\ At(_data, TRAS_TRC_HIGH) = 161
    /\ reply.timing.tRAS = 291 * MTB
    /\ reply.timing.tRC > 0

(***************************************************************************)
(* Speed grade: SPEED_GRADES (src/src/utils/constants.py) in the order of  *)
(* the dict, each entry <<min_ps, max_ps, speed>>, and                     *)
(* DDR4Parser.parse_speed_grade.                                           *)
(***************************************************************************)
SPEED_GRADES ==
    << <<625, 682, 3200>>,
       <<682, 750, 2933>>,
       <<750, 833, 2666>>,
       <<833, 938, 2400>>,
       <<938, 1071, 2133>>,
       <<1071, 1250, 1866>>,
       <<1250, 1500, 1600>> >>

Least(S) == CHOOSE n \in S : \A m \in S : n <= m

\* parse_speed_grade with the upper end of each bin taken into the bin
parse_speed_grade_closed_bins(data) ==
    LET tck_ps == At(data, TCK_MIN) * MTB + _signed_byte(At(data, TCK_MIN_FTB)) * FTB
        found == {i \in 1 .. Len(SPEED_GRADES) :
                      SPEED_GRADES[i][1] <= tck_ps /\ tck_ps <= SPEED_GRADES[i][2]}
    IN  IF tck_ps <= 0 THEN 0
        ELSE IF found # {} THEN SPEED_GRADES[Least(found)][3]
        ELSE 2000000 \div tck_ps

\* the loop returns at the first entry that holds tck_ps; 2000000 / tck_ps is
\* a double and int() its whole part, which is the integer quotient
parse_speed_grade(data) ==
    LET tck_ps == At(data, TCK_MIN) * MTB + _signed_byte(At(data, TCK_MIN_FTB)) * FTB
        found == {i \in 1 .. Len(SPEED_GRADES) :
                      SPEED_GRADES[i][1] <= tck_ps /\ tck_ps < SPEED_GRADES[i][2]}
    IN  IF tck_ps <= 0 THEN 0
        ELSE IF found # {} THEN SPEED_GRADES[Least(found)][3]
        ELSE 2000000 \div tck_ps

(***************************************************************************)
(* One parse of a loaded image: the speed grade and the timings.           *)
(***************************************************************************)
ClockImage(tck_mtb, tck_ftb, taa_mtb, taa_ftb) ==
    Image((DRAM_TYPE :> DDR4_TYPE) @@ (TCK_MIN :> tck_mtb) @@ (TCK_MIN_FTB :> tck_ftb)
              @@ (TAA_MIN :> taa_mtb) @@ (TAA_MIN_FTB :> taa_ftb))

MaxTckMtb == 12

MaxSmallTck == 8

\* every tCK from 500 ps to the end of MTB count MaxTckMtb with tAA = 10 ns;
\* every tCK up to MaxSmallTck ps with every fine offset of tAA; and images
\* with tCK zero or negative, tAA negative, both at their largest, and
\* quotients tAA / tCK that end in one half
ClockImages ==
    {ClockImage(m, f, 80, 0) : m \in 4 .. MaxTckMtb, f \in 0 .. 124}
        \cup {ClockImage(0, f, 0, g) : f \in 1 .. MaxSmallTck, g \in 0 .. 255}
        \cup {ClockImage(c[1], c[2], c[3], c[4]) :
                  c \in {<<0, 0, 80, 0>>, <<0, 200, 80, 0>>, <<5, 0, 0, 255>>,
                         <<255, 127, 255, 127>>, <<1, 128, 80, 0>>,
                         <<10, 0, 105, 0>>, <<10, 0, 115, 0>>, <<4, 0, 86, 0>>,
                         <<5, 231, 22, 206>>, <<5, 237, 65, 56>>}}

InitParse ==
    /\ request = [op |-> "parse"]
    /\ \E image \in ClockImages : Loaded(image)

Parse ==
    /\ request.op = "parse"
    /\ ~reply.done
    /\ reply' = [done |-> TRUE,
                 speed_grade |-> parse_speed_grade(_data),
                 timing |-> parse_timings(_data)]
    /\ call' = [op |-> "parse"]
    /\ before' = Lifecycle(Self)
    /\ emitted' = <<>>
    /\ delivered' = <<>>
    /\ UNCHANGED <<_data, _original_data, _modified_bytes, _observers, request, pc>>

NextParse == Parse

SpecParse == InitParse /\ [][NextParse]_vars

\* the entries of SPEED_GRADES whose half-open bin holds tck_ps
Bins(tck_ps) ==
    {i \in 1 .. Len(SPEED_GRADES) :
         SPEED_GRADES[i][1] <= tck_ps /\ tck_ps < SPEED_GRADES[i][2]}

\* C13 as claimed: every tCK from 625 to 1500 ps, both ends included, lies in
\* exactly one bin of SPEED_GRADES, and parse_speed_grade returns that bin's
\* speed.
C13_TableComplete ==
    (reply.done /\ request.op = "parse"
         /\ 625 <= reply.timing.tCK /\ reply.timing.tCK <= 1500) =>
        /\ Cardinality(Bins(reply.timing.tCK)) = 1
        /\ \A i \in Bins(reply.timing.tCK) : reply.speed_grade = SPEED_GRADES[i][3]

\* C13 amended: every tCK from 625 to 1499 ps lies in exactly one bin and
\* parse_speed_grade returns that bin's speed; 1500 ps lies in no bin and
\* gets the fallback 2000000 div 1500 = 1333.
C13_TableCompleteBelow1500 ==
    (reply.done /\ request.op = "parse") =>
        /\ (625 <= reply.timing.tCK /\ reply.timing.tCK < 1500) =>
               /\ Cardinality(Bins(reply.timing.tCK)) = 1
               /\ \A i \in Bins(reply.timing.tCK) :
                      reply.speed_grade = SPEED_GRADES[i][3]
        /\ reply.timing.tCK = 1500 =>
               /\ Bins(reply.timing.tCK) = {}
               /\ reply.speed_grade = 1333

\* the last picosecond of the last bin was parsed
C13_Witness ==
    /\ reply.done
    /\ request.op = "parse"
    /\ reply.timing.tCK = 1499
    /\ reply.speed_grade = 1600

\* cl is within one half of a / c
Nearest(cl, a, c) == 2 * Abs(a - cl * c) <= c

\* cl is a / c rounded, a quotient ending in one half going to the even
\* integer or to the one away from zero
Rounded(cl, a, c) ==
    /\ Nearest(cl, a, c)
    /\ 2 * Abs(a - cl * c) = c => (cl % 2 = 0 \/ Abs(cl) * c > Abs(a))

\* the speed grade of a tCK in picoseconds
GradeOf(tck_ps) ==
    IF tck_ps <= 0 THEN 0
    ELSE IF Bins(tck_ps) # {} THEN SPEED_GRADES[Least(Bins(tck_ps))][3]
    ELSE 2000000 \div tck_ps

\* C14 as claimed: CL is tAA / tCK rounded when the parsed tCK is above 0 and
\* 0 otherwise, the speed grade is that of the same tCK, and tCK = 625 ps with
\* tAA = 10000 ps gives speed grade 3200 and CL 16.
C14_CasLatencyRounded ==
    (reply.done /\ request.op = "parse") =>
        /\ reply.timing.tCK > 0 =>
               Rounded(reply.timing.CL, reply.timing.tAA, reply.timing.tCK)
        /\ reply.timing.tCK <= 0 => reply.timing.CL = 0
        /\ reply.speed_grade = GradeOf(reply.timing.tCK)
        /\ (reply.timing.tCK = 625 /\ reply.timing.tAA = 10000) =>
               (reply.speed_grade = 3200 /\ reply.timing.CL = 16)

\* C14 amended: CL is an integer within one half of tAA / tCK when the parsed
\* tCK is above 0 (which of the two it is when the quotient ends in one half
\* follows the double quotient) and 0 otherwise, the speed grade is that of
\* the same tCK, and tCK = 625 ps with tAA = 10000 ps gives 3200 and CL 16.
C14_CasLatencyNearest ==
    (reply.done /\ request.op = "parse") =>
        /\ reply.timing.tCK > 0 =>
               Nearest(reply.timing.CL, reply.timing.tAA, reply.timing.tCK)
        /\ reply.timing.tCK <= 0 => reply.timing.CL = 0
        /\ reply.speed_grade = GradeOf(reply.timing.tCK)
        /\ (reply.timing.tCK = 625 /\ reply.timing.tAA = 10000) =>
               (reply.speed_grade = 3200 /\ reply.timing.CL = 16)

\* the image with TCK_MIN = 5 and TAA_MIN = 80 was parsed
C14_Witness ==
    /\ reply.done
    /\ request.op = "parse"
    /\ At(_data, DRAM_TYPE) = DDR4_TYPE
    /\ At(_data, TCK_MIN) = 5
    /\ At(_data, TAA_MIN) = 80
    /\ At(_data, TCK_MIN_FTB) = 0
    /\ At(_data, TAA_MIN_FTB) = 0
    /\ reply.speed_grade = 3200
    /\ reply.timing.CL = 16

(***************************************************************************)
(* Manufacturer registry (src/src/core/parser/manufacturers.py):           *)
(* MANUFACTURERS in the order of the dict, each entry <<bank, id, name>>.  *)
(* A name found is [name |-> n]; the text "Unknown (0xFFSS)" is the record *)
(* with the two bytes it prints.                                           *)
(***************************************************************************)
MANUFACTURERS ==
    <<<<1, 44, "Micron Technology">>,
       <<1, 137, "Intel">>,
       <<1, 206, "Samsung">>,
       <<1, 173, "SK Hynix">>,
       <<1, 1, "AMD">>,
       <<1, 152, "Toshiba">>,
       <<1, 193, "Infineon">>,
       <<1, 32, "STMicroelectronics">>,
       <<1, 28, "Mitsubishi">>,
       <<1, 4, "Fujitsu">>,
       <<1, 7, "Hitachi">>,
       <<1, 218, "Winbond">>,
       <<1, 194, "Macronix">>,
       <<1, 191, "SST">>,
       <<1, 157, "ISSI">>,
       <<1, 55, "AMIC">>,
       <<1, 140, "EON">>,
       <<1, 161, "Fudan Microelectronics">>,
       <<1, 31, "Atmel">>,
       <<2, 158, "Corsair">>,
       <<2, 176, "Sharp">>,
       <<2, 186, "PNY">>,
       <<2, 79, "Transcend">>,
       <<2, 254, "ELPIDA">>,
       <<2, 11, "Nanya">>,
       <<2, 69, "SanDisk">>,
       <<2, 148, "ESMT">>,
       <<2, 81, "Qimonda">>,
       <<2, 122, "Apacer">>,
       <<2, 131, "Kingmax">>,
       <<2, 37, "Kingmax">>,
       <<2, 247, "Silicon Power">>,
       <<2, 152, "Kingston">>,
       <<3, 155, "Mushkin">>,
       <<3, 203, "A-DATA">>,
       <<3, 241, "Avant">>,
       <<3, 205, "G.Skill">>,
       <<3, 239, "Team Group">>,
       <<3, 127, "Patriot">>,
       <<3, 74, "GeIL">>,
       <<3, 8, "Crucial">>,
       <<4, 3, "OCZ">>,
       <<4, 239, "Crucial (Lexar)">>,
       <<4, 52, "Super Talent">>,
       <<4, 67, "Ramaxel">>,
       <<4, 133, "Spectek">>,
       <<4, 200, "Aeneon">>,
       <<5, 81, "SMART">>,
       <<5, 87, "ATRM">>,
       <<5, 154, "Swissbit">>,
       <<5, 179, "ATP Electronics">>,
       <<5, 148, "Innodisk">>,
       <<6, 67, "Ramaxel Technology">>,
       <<6, 206, "Samsung">>,
       <<6, 81, "SMART Modular">>,
       <<6, 133, "Wintec">>,
       <<6, 193, "V-Color">>,
       <<7, 206, "Samsung">>,
       <<7, 173, "SK Hynix">>,
       <<7, 44, "Micron">>,
       <<8, 206, "Samsung">>,
       <<8, 200, "Shanghai Huahong">>,
       <<8, 33, "Longsys">>,
       <<9, 206, "Samsung">>,
       <<9, 44, "Micron">>,
       <<9, 173, "SK Hynix">>,
       <<9, 72, "UniIC">>,
       <<9, 201, "ChangXin Memory (CXMT)">>,
       <<9, 202, "Yangtze Memory (YMTC)">> >>

MANUFACTURER_ID_FIRST == 320
MANUFACTURER_ID_SECOND == 321
MANUFACTURING_YEAR == 323
MANUFACTURING_WEEK == 324
SERIAL_NUMBER_1 == 325
SERIAL_NUMBER_4 == 328
PART_NUMBER_START == 329
PART_NUMBER_END == 348

Unknown(first_byte, second_byte) ==
    [name |-> "Unknown", first |-> first_byte, second |-> second_byte]

\* first_byte = 0x7F sets bank = 1; otherwise the while loop does not run and
\* bank = 0 + 1
decode_bank_id(first_byte, second_byte) == <<1, second_byte % 128>>

get_manufacturer_name(first_byte, second_byte) ==
    LET direct == {i \in 1 .. Len(MANUFACTURERS) :
                       \/ second_byte = MANUFACTURERS[i][2]
                       \/ second_byte % 128 = MANUFACTURERS[i][2]}
        key == decode_bank_id(first_byte, second_byte)
        full == {i \in 1 .. Len(MANUFACTURERS) :
                     MANUFACTURERS[i][1] = key[1] /\ MANUFACTURERS[i][2] = key[2]}
    IN  IF direct # {} THEN [name |-> MANUFACTURERS[Least(direct)][3]]
        ELSE IF full # {} THEN [name |-> MANUFACTURERS[Least(full)][3]]
        ELSE Unknown(first_byte, second_byte)

\* mid | 0x80
WithParity(mid) == IF mid >= 128 THEN mid ELSE mid + 128

get_manufacturer_id(name) ==
    LET found == {i \in 1 .. Len(MANUFACTURERS) : MANUFACTURERS[i][3] = name}
    IN  IF found # {}
        THEN LET bank == MANUFACTURERS[Least(found)][1]
                 mid == MANUFACTURERS[Least(found)][2]
             IN  <<IF bank > 1 THEN bank - 1 ELSE 0, WithParity(mid)>>
        ELSE <<0, 0>>

\* the "name" of the dict parse_manufacturer returns
parse_manufacturer(data) ==
    get_manufacturer_name(At(data, MANUFACTURER_ID_FIRST),
                          At(data, MANUFACTURER_ID_SECOND))

(***************************************************************************)
(* Text is a sequence of code points.  Identity fields of the image:       *)
(* DDR4Parser.parse_part_number, parse_serial_number and                   *)
(* parse_manufacturing_date.                                               *)
(***************************************************************************)
\* the characters str.strip() and int() take for white space, in ASCII
IsSpace(c) == c \in (9 .. 13) \cup (28 .. 32)

RECURSIVE LeftStrip(_)
LeftStrip(text) ==
    IF text # <<>> /\ IsSpace(Head(text)) THEN LeftStrip(Tail(text)) ELSE text

RECURSIVE RightStrip(_)
RightStrip(text) ==
    IF text # <<>> /\ IsSpace(text[Len(text)])
    THEN RightStrip(SubSeq(text, 1, Len(text) - 1))
    ELSE text

Strip(text) == RightStrip(LeftStrip(text))

\* data[lo : hi + 1]
Slice(data, lo, hi) == SubSeq(data, lo + 1, hi + 1)

IsPrintable(b) == 32 <= b /\ b < 127

parse_part_number(data) ==
    Strip(SelectSeq(Slice(data, PART_NUMBER_START, PART_NUMBER_END), IsPrintable))

\* one digit of the format 02X
HexDigit(n) == IF n < 10 THEN 48 + n ELSE 55 + n

RECURSIVE JoinHex(_)
JoinHex(bytes) ==
    IF bytes = <<>> THEN <<>>
    ELSE <<HexDigit(Head(bytes) \div 16), HexDigit(Head(bytes) % 16)>>
             \o JoinHex(Tail(bytes))

parse_serial_number(data) == JoinHex(Slice(data, SERIAL_NUMBER_1, SERIAL_NUMBER_4))

\* str(n) for n in 0 .. 99
Decimal(n) == IF n < 10 THEN <<48 + n>> ELSE <<48 + (n \div 10), 48 + (n % 10)>>

\* "Unknown"
TextUnknown == <<85, 110, 107, 110, 111, 119, 110>>

\* " Week "
TextWeek == <<32, 87, 101, 101, 107, 32>>

\* "20"
TextCentury == <<50, 48>>

parse_manufacturing_date(data) ==
    LET year == At(data, MANUFACTURING_YEAR)
        week == At(data, MANUFACTURING_WEEK)
    IN  IF year = 0 \/ year = 255 THEN TextUnknown
        ELSE TextCentury \o Decimal(year \div 16) \o Decimal(year % 16)
                 \o TextWeek \o Decimal(week \div 16) \o Decimal(week % 16)

(***************************************************************************)
(* The structured view: DDR4Parser.is_valid, to_dict and parse             *)
(* (src/src/core/parser/ddr4.py), SPDDataModel.export_to_json and          *)
(* export_to_text (src/src/core/model.py).  A dict is a record.  A field   *)
(* whose parser is not modelled holds the name of that parser in the place *)
(* of its value; a time printed with three decimals of a nanosecond is its *)
(* picoseconds.                                                            *)
(***************************************************************************)
DRAM_MANUFACTURER_ID_FIRST == 350
DRAM_MANUFACTURER_ID_SECOND == 351

\* the data the parser keeps: a short list is padded with zeros
DDR4Parser(data) ==
    IF Len(data) >= SPD_SIZE THEN data ELSE data \o ZeroList(SPD_SIZE - Len(data))

is_valid(data) == Len(data) >= 256 /\ At(data, DRAM_TYPE) = DDR4_TYPE

\* "Unknown (0x..)" is the record with the byte it prints
parse_memory_type(data) ==
    LET dram_type == At(data, DRAM_TYPE)
    IN  IF dram_type = DDR4_TYPE THEN [name |-> "DDR4"]
        ELSE IF dram_type = 14 THEN [name |-> "DDR5"]
        ELSE IF dram_type = 11 THEN [name |-> "DDR3"]
        ELSE [name |-> "Unknown", byte |-> dram_type]

parse_dram_manufacturer(data) ==
    IF Len(data) <= DRAM_MANUFACTURER_ID_SECOND THEN [name |-> "Unknown"]
    ELSE get_manufacturer_name(At(data, DRAM_MANUFACTURER_ID_FIRST),
                               At(data, DRAM_MANUFACTURER_ID_SECOND))

\* a time of k * 125 ps printed with one decimal of a nanosecond, in tenths:
\* the double is exact at the halves, which go to the even tenth
Tenths(ps) ==
    LET whole == ps \div 100
    IN  IF ps % 100 > 50 \/ (ps % 100 = 50 /\ whole % 2 = 1) THEN whole + 1 ELSE whole

InvalidView == [error |-> "Invalid DDR4 data"]

\* the timings of the dict, as to_dict prints them from the parsed timings
TimingsView(timing) ==
    [tCK |-> timing.tCK, tAA |-> timing.tAA, tRCD |-> timing.tRCD,
     tRP |-> timing.tRP, tRAS |-> timing.tRAS, tRC |-> timing.tRC,
     tRFC1 |-> Tenths(timing.tRFC1), tRFC2 |-> Tenths(timing.tRFC2),
     tRFC4 |-> Tenths(timing.tRFC4), tWR |-> timing.tWR,
     tWTR_S |-> timing.tWTR_S, tWTR_L |-> timing.tWTR_L,
     CL |-> timing.CL]

FullView(data, mode) ==
    [memory_type |-> parse_memory_type(data),
     module_type |-> "parse_module_type",
     capacity |-> "parse_capacity",
     organization |-> "parse_capacity",
     speed_grade |-> parse_speed_grade(data),
     voltage |-> "1.2",
     manufacturer |-> parse_manufacturer(data),
     part_number |-> parse_part_number(data),
     serial_number |-> parse_serial_number(data),
     manufacturing_date |-> parse_manufacturing_date(data),
     timing_string |-> "get_timing_string",
     timings |-> TimingsView(parse_timings(data)),
     supported_cl |-> "parse_cas_latencies",
     xmp |-> "parse_xmp",
     capacity_details |-> "parse_capacity",
     die_info |-> "parse_die_info",
     bank_config |-> "parse_bank_config",
     addressing |-> "parse_addressing_info",
     ecc_info |-> "parse_ecc_info",
     thermal_sensor |-> "parse_thermal_sensor",
     dram_manufacturer |-> parse_dram_manufacturer(data),
     display_mode |-> mode]

\* if mode == "read": result["die_info_inferred"] = ...
ByMode(result, mode) ==
    IF mode = "read" THEN result @@ [die_info_inferred |-> "infer_die_type"] ELSE result

\* to_dict without the test of is_valid()
to_dict_ungated(data, mode) == ByMode(FullView(data, mode), mode)

to_dict(data, mode) ==
    IF ~is_valid(data) THEN InvalidView ELSE ByMode(FullView(data, mode), mode)

\* the text parse() returns, as the record of what its lines print
Summary(info) ==
    [memory_type |-> info.memory_type,
     module_type |-> info.module_type,
     capacity |-> info.capacity,
     organization |-> info.organization,
     speed_grade |-> info.speed_grade,
     timing_string |-> info.timing_string,
     manufacturer |-> info.manufacturer,
     part_number |-> info.part_number,
     serial_number |-> info.serial_number,
     manufacturing_date |-> info.manufacturing_date,
     xmp |-> info.xmp]

parse(data) ==
    IF ~is_valid(data) THEN [error |-> "not DDR4"] ELSE Summary(to_dict(data, "spd"))

get_modifications(self) ==
    IF ~Truthy(self.original_data) THEN <<>>
    ELSE [offset \in self.modified_bytes |->
              <<At(self.original_data, offset), At(self.data, offset)>>]

\* export_time and source do not come from the image and are left out
export_to_json(self) ==
    [raw_data |-> self.data,
     parsed_info |-> to_dict(DDR4Parser(self.data), "spd"),
     modifications |-> get_modifications(self)]

\* info.get(key, default); a value found is [value |-> v]
Get(info, key, default) ==
    IF key \in DOMAIN info THEN [value |-> info[key]] ELSE default

\* the two-character text export_to_text prints for a key that info lacks
Placeholder == [text |-> "unknown"]

\* the empty dict export_to_text takes for the timings that info lacks
NoTimings == [lines |-> {}]

\* the lines of the report that come from the dict
Report(info) ==
    [memory_type |-> Get(info, "memory_type", Placeholder),
     module_type |-> Get(info, "module_type", Placeholder),
     capacity |-> Get(info, "capacity", Placeholder),
     speed_grade |-> Get(info, "speed_grade", Placeholder),
     manufacturer |-> Get(info, "manufacturer", Placeholder),
     part_number |-> Get(info, "part_number", Placeholder),
     serial_number |-> Get(info, "serial_number", Placeholder),
     manufacturing_date |-> Get(info, "manufacturing_date", Placeholder),
     timings |-> Get(info, "timings", NoTimings)]

\* the report, as the record of what its lines print
export_to_text(self) ==
    Report(to_dict(DDR4Parser(self.data), "spd"))
        @@ [modifications |-> get_modifications(self)]

(***************************************************************************)
(* One view of a loaded image.                                             *)
(***************************************************************************)
MaxViewTck == 12

\* images of every kind of DRAM-type byte, 512 zeros among them
ViewImages ==
    {Image((DRAM_TYPE :> type) @@ (TCK_MIN :> m) @@ (TAA_MIN :> 16 * m)
               @@ (MANUFACTURER_ID_SECOND :> 16 * m)) :
         type \in {0, 11, DDR4_TYPE, 13, 14, 255}, m \in 0 .. MaxViewTck}

ViewRequests ==
    {[op |-> "to_dict", mode |-> mode] : mode \in {"spd", "read"}}
        \cup {[op |-> op] : op \in {"parse", "export_to_json", "export_to_text"}}

InitView ==
    /\ request \in ViewRequests
    /\ \E image \in ViewImages : Loaded(image)

View ==
    /\ request.op \in {"to_dict", "parse", "export_to_json", "export_to_text"}
    /\ ~reply.done
    /\ reply' = [done |-> TRUE,
                 valid |-> is_valid(DDR4Parser(_data)),
                 view |-> CASE request.op = "to_dict" ->
                                   to_dict(DDR4Parser(_data), request.mode)
                            [] request.op = "parse" -> parse(DDR4Parser(_data))
                            [] request.op = "export_to_json" -> export_to_json(Self)
                            [] request.op = "export_to_text" -> export_to_text(Self)]
    /\ call' = [op |-> request.op]
    /\ before' = Lifecycle(Self)
    /\ emitted' = <<>>
    /\ delivered' = <<>>
    /\ UNCHANGED <<_data, _original_data, _modified_bytes, _observers, request, pc>>

NextView == View

SpecView == InitView /\ [][NextView]_vars

\* the keys of the dict of a DDR4 image
FullKeys ==
    {"memory_type", "module_type", "capacity", "organization", "speed_grade",
     "voltage", "manufacturer", "part_number", "serial_number",
     "manufacturing_date", "timing_string", "timings", "supported_cl", "xmp",
     "capacity_details", "die_info", "bank_config", "addressing", "ecc_info",
     "thermal_sensor", "dram_manufacturer", "display_mode"}

\* the fields export_to_text prints from the dict
ReportKeys ==
    {"memory_type", "module_type", "capacity", "speed_grade", "manufacturer",
     "part_number", "serial_number", "manufacturing_date"}

\* what a view must be for an image that is DDR4 or is not
Gated(op, view, ddr4) ==
    CASE op = "to_dict" ->
             IF ddr4 THEN FullKeys \subseteq DOMAIN view /\ ~("error" \in DOMAIN view)
             ELSE DOMAIN view = {"error"}
      [] op = "parse" ->
             IF ddr4 THEN ReportKeys \subseteq DOMAIN view /\ ~("error" \in DOMAIN view)
             ELSE DOMAIN view = {"error"}
      [] op = "export_to_json" ->
             IF ddr4 THEN FullKeys \subseteq DOMAIN view.parsed_info
             ELSE DOMAIN view.parsed_info = {"error"}
      [] op = "export_to_text" ->
             IF ddr4
             THEN /\ \A key \in ReportKeys : DOMAIN view[key] = {"value"}
                  /\ DOMAIN view.timings = {"value"}
             ELSE /\ \A key \in ReportKeys : view[key] = Placeholder
                  /\ view.timings = NoTimings

RECURSIVE RemovePair(_, _, _)
RemovePair(text, a, b) ==
    IF Len(text) < 2 THEN text
    ELSE IF text[1] = a /\ text[2] = b THEN RemovePair(SubSeq(text, 3, Len(text)), a, b)
    ELSE <<text[1]>> \o RemovePair(Tail(text), a, b)

\* text.replace(c, "") for the character c
RemoveChar(text, c) == SelectSeq(text, LAMBDA d : d # c)

Zeros(n) == [i \in 1 .. n |-> 48]

\* text.zfill(width): the zeros go after a leading sign
zfill(text, width) ==
    IF Len(text) >= width THEN text
    ELSE IF text # <<>> /\ text[1] \in {43, 45}
    THEN <<text[1]>> \o Zeros(width - Len(text)) \o Tail(text)
    ELSE Zeros(width - Len(text)) \o text

\* text.ljust(width)
ljust(text, width) ==
    IF Len(text) >= width THEN text ELSE text \o [i \in 1 .. width - Len(text) |-> 32]

\* text.upper()
upper(text) == [i \in 1 .. Len(text) |-> IF text[i] \in 97 .. 122 THEN text[i] - 32 ELSE text[i]]

\* text.isdigit()
isdigit(text) == text # <<>> /\ \A i \in 1 .. Len(text) : text[i] \in 48 .. 57

\* the value of a digit in a base up to 16, or -1
DigitValue(c, base) ==
    LET v == IF c \in 48 .. 57 THEN c - 48
             ELSE IF c \in 65 .. 70 THEN c - 55
             ELSE IF c \in 97 .. 102 THEN c - 87
             ELSE -1
    IN  IF v < base THEN v ELSE -1

RECURSIVE DigitsValue(_, _)
DigitsValue(digits, base) ==
    IF digits = <<>> THEN 0
    ELSE DigitsValue(SubSeq(digits, 1, Len(digits) - 1), base) * base
             + DigitValue(digits[Len(digits)], base)

\* int(text, base) for base 10 and, on texts too short to hold a 0x prefix
\* and a digit, base 16: white space at the ends is dropped, one sign may
\* lead, single underscores may stand between digits.  ok is FALSE where
\* int() raises ValueError.
int(text, base) ==
    LET bare == Strip(text)
        signed == bare # <<>> /\ bare[1] \in {43, 45}
        body == IF signed THEN Tail(bare) ELSE bare
        digits == RemoveChar(body, 95)
        wellformed ==
            /\ body # <<>>
            /\ body[1] # 95
            /\ body[Len(body)] # 95
            /\ \A i \in 1 .. Len(body) - 1 : ~(body[i] = 95 /\ body[i + 1] = 95)
            /\ \A i \in 1 .. Len(digits) : DigitValue(digits[i], base) >= 0
    IN  IF ~wellformed THEN [ok |-> FALSE, value |-> 0]
        ELSE [ok |-> TRUE,
              value |-> IF signed /\ bare[1] = 45 THEN -DigitsValue(digits, base)
                        ELSE DigitsValue(digits, base)]

\* the index of the first c in text, or 0
Find(text, c) ==
    IF \E i \in 1 .. Len(text) : text[i] = c
    THEN Least({i \in 1 .. Len(text) : text[i] = c})
    ELSE 0

\* the index at which the first a + b starts in text, or 0
FindPair(text, a, b) ==
    IF \E i \in 1 .. Len(text) - 1 : text[i] = a /\ text[i + 1] = b
    THEN Least({i \in 1 .. Len(text) - 1 : text[i] = a /\ text[i + 1] = b})
    ELSE 0

(***************************************************************************)
(* DetailsTab._on_field_changed(key, value).  The value of the key         *)
(* manufacturer or module_type is a name; every other value is text.       *)
(***************************************************************************)
MODULE_TYPE == 3

MODULE_TYPES ==
    << <<1, "RDIMM">>, <<2, "UDIMM">>, <<3, "SO-DIMM">>, <<4, "LRDIMM">>,
       <<5, "Mini-RDIMM">>, <<6, "Mini-UDIMM">>, <<8, "72b-SO-RDIMM">>,
       <<9, "72b-SO-UDIMM">>, <<12, "16b-SO-DIMM">>, <<13, "32b-SO-DIMM">> >>

has_data(self) == \E i \in 1 .. Len(self.data) : self.data[i] # 0

\* for i, char in enumerate(part_number): set_byte(PART_NUMBER_START + i, ord(char))
\* (each call is evaluated to its end before the next character is taken)
RECURSIVE WriteText(_, _, _)
WriteText(out, offset, text) ==
    IF text = <<>> THEN out
    ELSE LET written == then_set_byte(out, offset, Head(text))
         IN  IF written.ret THEN WriteText(written, offset + 1, Tail(text)) ELSE written

\* the loop over the four pairs of hex_str from pair i on; a pair that
\* int() refuses raises ValueError and ends the loop, the bytes written
\* before it staying written
RECURSIVE WriteSerial(_, _, _)
WriteSerial(out, hex_str, i) ==
    IF i >= 4 THEN out
    ELSE LET byte_val == int(SubSeq(hex_str, 2 * i + 1, 2 * i + 2), 16)
         IN  IF ~byte_val.ok THEN out
             ELSE WriteSerial(then_set_byte(out, SERIAL_NUMBER_1 + i, byte_val.value),
                              hex_str, i + 1)

\* text.split(a)[0] and [1] for a separator of length n first found at index
\* at > 0, the second part ending where the separator is found next (next = 0:
\* at the end of the text)
FirstPart(text, at) == SubSeq(text, 1, at - 1)

SecondPart(text, at, n, next) ==
    LET rest == SubSeq(text, at + n, Len(text))
    IN  IF next = 0 THEN rest ELSE SubSeq(rest, 1, next - 1)

\* year and week as the three branches of the date parse find them; none is
\* TRUE when no branch matches, ok is FALSE when int() raises ValueError
ParseDate(text) ==
    LET value == Strip(text)
        slash == Find(value, 47)
        upped == upper(value)
        dashw == FindPair(upped, 45, 87)
    IN  IF slash > 0
        THEN LET rest == SubSeq(value, slash + 1, Len(value))
                 week == int(RemoveChar(RemoveChar(FirstPart(value, slash), 87), 119), 10)
                 year == int(SecondPart(value, slash, 1, Find(rest, 47)), 10)
             IN  [ok |-> week.ok /\ year.ok, none |-> FALSE,
                  year |-> year.value % 100, week |-> week.value]
        ELSE IF dashw > 0
        THEN LET rest == SubSeq(upped, dashw + 2, Len(upped))
                 year == int(FirstPart(upped, dashw), 10)
                 week == int(SecondPart(upped, dashw, 2, FindPair(rest, 45, 87)), 10)
             IN  [ok |-> year.ok /\ week.ok, none |-> FALSE,
                  year |-> year.value % 100, week |-> week.value]
        ELSE IF Len(value) = 4 /\ isdigit(value)
        THEN [ok |-> TRUE, none |-> FALSE,
              year |-> int(value, 10).value % 100, week |-> 1]
        ELSE [ok |-> TRUE, none |-> TRUE, year |-> 0, week |-> 0]

\* _on_field_changed writing the part number without the padding
_on_field_changed_unpadded(self, key, value) ==
    LET start == Outcome(self, TRUE, <<>>)
    IN  IF key = "part_number" /\ has_data(self)
        THEN WriteText(start, PART_NUMBER_START,
                       IF Len(value) > 20 THEN SubSeq(value, 1, 20) ELSE value)
        ELSE start

_on_field_changed(self, key, value) ==
    LET start == Outcome(self, TRUE, <<>>)
    IN  IF ~has_data(self) THEN start
        ELSE CASE key = "manufacturer" ->
                      LET id == get_manufacturer_id(value)
                      IN  then_set_byte(then_set_byte(start, MANUFACTURER_ID_FIRST, id[1]),
                                        MANUFACTURER_ID_SECOND, id[2])
               [] key = "part_number" ->
                      WriteText(start, PART_NUMBER_START, SubSeq(ljust(value, 20), 1, 20))
               [] key = "serial_number" ->
                      LET hex_str == RemoveChar(RemovePair(RemovePair(value, 48, 120),
                                                           48, 88), 32)
                      IN  IF Len(hex_str) <= 8
                          THEN WriteSerial(start, zfill(hex_str, 8), 0)
                          ELSE start
               [] key = "manufacturing_date" ->
                      LET date == ParseDate(value)
                      IN  IF ~date.ok \/ date.none THEN start
                          ELSE then_set_byte(
                                   then_set_byte(start, MANUFACTURING_YEAR, date.year),
                                   MANUFACTURING_WEEK, date.week)
               [] key = "module_type" ->
                      LET found == {i \in 1 .. Len(MODULE_TYPES) : MODULE_TYPES[i][2] = value}
                      IN  IF found = {} THEN start
                          ELSE then_set_byte(start, MODULE_TYPE, MODULE_TYPES[Least(found)][1])
               [] key = "speed_grade" ->
                      LET speed == int(value, 10)
                      IN  IF speed.ok /\ 1600 <= speed.value /\ speed.value <= 5000
                          THEN then_set_byte(start, TCK_MIN,
                                             (2000000 \div speed.value) \div 125)
                          ELSE start
               [] OTHER -> start


(***************************************************************************)
(* One edit of a field of the details tab on a loaded image, and the       *)
(* identity fields the parser then reads from the image.                   *)
(***************************************************************************)
\* the names of the registry
RegistryNames == {MANUFACTURERS[i][3] : i \in 1 .. Len(MANUFACTURERS)}

\* names no entry of the registry holds
OtherNames == {"Nobody", "samsung", ""}

\* the longest part number drawn from PartAlphabet
MaxPartLen == 2

\* "A", " ", "~", "0"
PartAlphabet == {65, 32, 126, 48}

RECURSIVE TextsUpTo(_, _)
TextsUpTo(alphabet, n) ==
    IF n = 0 THEN {<<>>}
    ELSE LET shorter == TextsUpTo(alphabet, n - 1)
         IN  shorter \cup {<<c>> \o t : c \in alphabet, t \in {s \in shorter : Len(s) = n - 1}}

\* part numbers as they are typed
LongPartNumbers ==
    {<<77, 84, 65, 49, 56, 65, 83, 70, 50, 71, 55, 50, 80, 90>>,    \* "MTA18ASF2G72PZ"
     <<77>>,    \* "M"
     <<75, 86, 82, 50, 52, 78, 49, 55, 83, 56, 47, 56>>,    \* "KVR24N17S8/8"
     <<72, 77, 65, 56, 49, 71, 85, 54, 32, 65, 70, 82, 56, 78>>,    \* "HMA81GU6 AFR8N"
     <<65, 66, 67, 68, 69, 70, 71, 72, 73, 74, 75, 76, 77, 78, 79, 80, 81, 82, 83, 84>>,    \* "ABCDEFGHIJKLMNOPQRST"
     <<65, 66, 67, 68, 69, 70, 71, 72, 73, 74, 75, 76, 77, 78, 79, 80, 81, 82, 83, 84, 85>>,    \* "ABCDEFGHIJKLMNOPQRSTU"
     <<67, 77, 75, 49, 54, 71, 88, 52, 77, 50, 66, 51, 50, 48, 48, 67, 49, 54, 45, 69, 88, 84, 82, 65>>}    \* "CMK16GX4M2B3200C16-EXTRA"

PartNumbers == TextsUpTo(PartAlphabet, MaxPartLen) \cup LongPartNumbers

\* serial numbers as they are typed
SerialNumbers ==
    {<<49, 50, 51, 52, 53, 54, 55, 56>>,    \* "12345678"
     <<48, 120, 49, 50, 51, 52, 53, 54, 55, 56>>,    \* "0x12345678"
     <<48, 88, 68, 69, 65, 68, 66, 69, 69, 70>>,    \* "0XDEADBEEF"
     <<49, 50, 32, 51, 52, 32, 53, 54, 32, 55, 56>>,    \* "12 34 56 78"
     <<97, 98, 99>>,    \* "abc"
     <<>>,    \* ""
     <<49>>,    \* "1"
     <<70, 70, 70, 70, 70, 70, 70, 70>>,    \* "FFFFFFFF"
     <<49, 50, 51, 52, 53, 54, 55, 71>>,    \* "1234567G"
     <<71, 49, 50, 51, 52, 53, 54, 55>>,    \* "G1234567"
     <<49, 50, 71, 52, 53, 54, 55, 56>>,    \* "12G45678"
     <<49, 50, 51, 52, 53, 54, 55, 56, 57>>,    \* "123456789"
     <<43, 49, 50, 51, 52, 53, 54, 55>>,    \* "+1234567"
     <<49, 50, 51, 52, 53, 32, 55, 56>>,    \* "12345 78"
     <<48, 120>>,    \* "0x"
     <<88, 89, 90>>}    \* "XYZ"

\* n as two decimal digits, n in 0 .. 99
TwoDigits(n) == <<48 + (n \div 10), 48 + (n % 10)>>

\* n as four decimal digits, n in 0 .. 9999
FourDigits(n) == TwoDigits(n \div 100) \o TwoDigits(n % 100)

\* the text YYYY-WNN ("iso") or WNN/YYYY ("slash") of a year and a week
DateText(format, year, week) ==
    IF format = "iso"
    THEN FourDigits(year) \o <<45, 87>> \o TwoDigits(week)
    ELSE <<87>> \o TwoDigits(week) \o <<47>> \o FourDigits(year)

DateFormats == {"iso", "slash"}

DateYears == {2001, 2009, 2010, 2016, 2023, 2099}

DateWeeks == {1, 9, 10, 26, 53}

\* dates in another form, or in none
OtherDates ==
    {<<50, 48, 50, 51>>,    \* "2023"
     <<49, 57, 57, 57>>,    \* "1999"
     <<50, 51, 45, 87, 50, 54>>,    \* "23-W26"
     <<50, 48, 50, 51, 45, 50, 54>>,    \* "2023-26"
     <<50, 54, 47, 50, 48, 50, 51>>,    \* "26/2023"
     <<87, 50, 54, 47>>,    \* "W26/"
     <<50, 48, 50, 51, 45, 87, 120, 120>>,    \* "2023-Wxx"
     <<87, 53, 47, 50, 48, 50, 51>>,    \* "W5/2023"
     <<>>,    \* ""
     <<50, 48, 50, 51, 45, 87>>}    \* "2023-W"

Dates ==
    {DateText(format, year, week) :
         format \in DateFormats, year \in DateYears, week \in DateWeeks}
        \cup OtherDates

\* speed grades as they are typed
Speeds ==
    {<<50, 52, 48, 48>>,    \* "2400"
     <<51, 50, 48, 48>>,    \* "3200"
     <<49, 54, 48, 48>>,    \* "1600"
     <<53, 48, 48, 48>>,    \* "5000"
     <<49, 53, 57, 57>>,    \* "1599"
     <<53, 48, 48, 49>>,    \* "5001"
     <<102, 97, 115, 116>>,    \* "fast"
     <<50, 49, 51, 51>>,    \* "2133"
     <<49, 56, 54, 54>>,    \* "1866"
     <<50, 54, 54, 54>>,    \* "2666"
     <<50, 57, 51, 51>>}    \* "2933"

\* a value is the name chosen in a select field or the text typed in another
DetailsRequests ==
    {[op |-> "_on_field_changed", key |-> "manufacturer", name |-> name] :
         name \in RegistryNames \cup OtherNames}
        \cup {[op |-> "_on_field_changed", key |-> "part_number", text |-> text] :
                  text \in PartNumbers}
        \cup {[op |-> "_on_field_changed", key |-> "serial_number", text |-> text] :
                  text \in SerialNumbers}
        \cup {[op |-> "_on_field_changed", key |-> "manufacturing_date", text |-> text] :
                  text \in Dates}
        \cup {[op |-> "_on_field_changed", key |-> "module_type", name |-> name] :
                  name \in {"UDIMM", "SO-DIMM", "Nope"}}
        \cup {[op |-> "_on_field_changed", key |-> "speed_grade", text |-> text] :
                  text \in Speeds}
        \cup {[op |-> "_on_field_changed", key |-> "capacity", text |-> <<56>>]}

Value(edit) == IF "name" \in DOMAIN edit THEN edit.name ELSE edit.text

\* the identity bytes of a module: manufacturer to part number
IdentityOffsets == MANUFACTURER_ID_FIRST .. PART_NUMBER_END

\* a loaded image of zeros, a DDR4 image without identity, a DDR4 image
\* whose identity bytes all hold "Z", and a DDR4-2400 image (tCK 833 ps:
\* 7 MTB units less 42 ps)
DetailsImages ==
    {Image(<<>>),
     Image(DRAM_TYPE :> DDR4_TYPE),
     Image((DRAM_TYPE :> DDR4_TYPE) @@ [o \in IdentityOffsets |-> 90]),
     Image((DRAM_TYPE :> DDR4_TYPE) @@ (TCK_MIN :> 7) @@ (TCK_MIN_FTB :> 214))}

InitDetails ==
    /\ request \in DetailsRequests
    /\ \E image \in DetailsImages : Loaded(image)

FieldChanged ==
    /\ request.op = "_on_field_changed"
    /\ ~reply.done
    /\ LET out == _on_field_changed(Self, request.key, Value(request))
       IN  /\ Effect(out)
           /\ reply' = [done |-> TRUE,
                        had_data |-> has_data(Self),
                        manufacturer |-> parse_manufacturer(out.self.data),
                        part_number |-> parse_part_number(out.self.data),
                        serial_number |-> parse_serial_number(out.self.data),
                        manufacturing_date |-> parse_manufacturing_date(out.self.data),
                        speed_grade |-> parse_speed_grade(out.self.data)]
    /\ call' = [op |-> "_on_field_changed", key |-> request.key]
    /\ UNCHANGED request

NextDetails == FieldChanged

SpecDetails == InitDetails /\ [][NextDetails]_vars

\* the handler has run for the key on an image that has data
Edited(key) == reply.done /\ request.key = key /\ reply.had_data

\* the bytes at the offsets are as they were loaded
Untouched(offsets) == \A o \in offsets : At(_data, o) = At(_original_data, o)

AllOffsets == 0 .. SPD_SIZE - 1

\* C16: manufacturer registry round trip: for every name that occurs in the
\* MANUFACTURERS registry, the two bytes get_manufacturer_id(name) produces,
\* written by the manufacturer edit, decode through get_manufacturer_name
\* back to exactly that name.
C16_RegistryRoundTrip ==
    (Edited("manufacturer") /\ request.name \in RegistryNames)
        => /\ LET id == get_manufacturer_id(request.name)
              IN  get_manufacturer_name(id[1], id[2]) = [name |-> request.name]
           /\ reply.manufacturer = [name |-> request.name]

\* C17: the manufacturer encode of a name that is not in the registry fails:
\* its result differs from the result of every successful encode, and the
\* manufacturer edit then leaves bytes 320 and 321 of the image unchanged.
C17_UnknownNameRejected ==
    (Edited("manufacturer") /\ request.name \notin RegistryNames)
        => /\ \A name \in RegistryNames :
                  get_manufacturer_id(request.name) # get_manufacturer_id(name)
           /\ Untouched({MANUFACTURER_ID_FIRST, MANUFACTURER_ID_SECOND})

\* the bytes of the part number in the image
PartWindow == Slice(_data, PART_NUMBER_START, PART_NUMBER_END)

\* printable ASCII
Printable(text) == \A i \in 1 .. Len(text) : IsPrintable(text[i])

\* C18: part-number round trip: writing a part number of 1 to 20 printable
\* ASCII characters without white space at its ends sets the 20 bytes
\* 329..348 to the text left-justified and padded with spaces, changes no byte
\* outside that window, and parse_part_number then returns exactly the written
\* text; input longer than 20 characters is truncated to its first 20.
C18_PartNumberRoundTrip ==
    (Edited("part_number") /\ Printable(request.text) /\ request.text # <<>>)
        => LET text == request.text
           IN  /\ Untouched(AllOffsets \ (PART_NUMBER_START .. PART_NUMBER_END))
               /\ Len(text) > 20 => PartWindow = SubSeq(text, 1, 20)
               /\ (Len(text) <= 20 /\ ~IsSpace(text[1]) /\ ~IsSpace(text[Len(text)]))
                      => /\ PartWindow = text \o [i \in 1 .. 20 - Len(text) |-> 32]
                         /\ reply.part_number = text

\* a part number of 14 characters was written over 20 bytes that held other
\* text, and reads back as written
C18_Witness ==
    /\ Edited("part_number")
    /\ Len(request.text) = 14
    /\ At(_original_data, PART_NUMBER_END) = 90
    /\ At(_data, PART_NUMBER_END) = 32
    /\ reply.part_number = request.text

\* the text without white space and without a 0x prefix
HexDigitsOf(text) ==
    LET bare == SelectSeq(text, LAMBDA c : ~IsSpace(c))
    IN  IF Len(bare) >= 2 /\ bare[1] = 48 /\ bare[2] \in {88, 120}
        THEN SubSeq(bare, 3, Len(bare))
        ELSE bare

\* at most 8 hex digits and nothing else
ValidSerial(text) ==
    LET digits == HexDigitsOf(text)
    IN  /\ Len(digits) <= 8
        /\ \A i \in 1 .. Len(digits) : DigitValue(digits[i], 16) >= 0

SerialOffsets == SERIAL_NUMBER_1 .. SERIAL_NUMBER_4

\* C19: the serial-number encode fails without effect on invalid input: when
\* the text, after the removal of an optional 0x prefix and of white space, has
\* more than 8 hex digits or holds a character that is no hex digit at any
\* position, none of the four bytes 325..328 is changed; valid input of at
\* most 8 hex digits sets exactly those four bytes.
C19_SerialAllOrNothing ==
    Edited("serial_number")
        => IF ValidSerial(request.text)
           THEN /\ Untouched(AllOffsets \ SerialOffsets)
                /\ reply.serial_number = upper(zfill(HexDigitsOf(request.text), 8))
           ELSE Untouched(SerialOffsets)

\* n in 0 .. 99 as one BCD byte
Bcd(n) == 16 * (n \div 10) + (n % 10)

\* the text parse_manufacturing_date prints for a year and a week
DateShown(year, week) ==
    TextCentury \o TwoDigits(year % 100) \o TextWeek \o TwoDigits(week)

\* C20: manufacturing-date round trip: the date bytes 323 and 324 are BCD
\* (year offset from 2000, week); encoding a date given as YYYY-WNN or WNN/YYYY
\* (year 2001..2099, week 1..53) and then decoding it with
\* parse_manufacturing_date yields the same year and the same week.
C20_DateRoundTrip ==
    Edited("manufacturing_date")
        => \A format \in DateFormats, year \in DateYears, week \in DateWeeks :
               request.text = DateText(format, year, week)
                   => /\ At(_data, MANUFACTURING_YEAR) = Bcd(year - 2000)
                      /\ At(_data, MANUFACTURING_WEEK) = Bcd(week)
                      /\ reply.manufacturing_date = DateShown(year, week)


(***************************************************************************)
(* XMP profiles: XMPTab._write_xmp_profile (src/src/gui/tabs/xmp.py) and   *)
(* DDR4Parser.parse_xmp, _parse_xmp_profile (src/src/core/parser/ddr4.py). *)
(* A frequency is an integer of MT/s, a voltage an integer of millivolts   *)
(* standing for the double nearest mv / 1000, and a profile gives trcd,    *)
(* trp and tras as integers.                                               *)
(***************************************************************************)
XMP_HEADER == 384
XMP_REVISION == 385
XMP_PROFILE_ENABLED == 386
XMP_PROFILE1_START == 393
XMP_PROFILE2_START == 440
XMP_MAGIC == 12

RECURSIVE Halvings(_, _)
Halvings(a, b) == IF a < 2 * b THEN 0 ELSE 1 + Halvings(a, 2 * b)

RECURSIVE DoublingsTo(_, _)
DoublingsTo(a, b) == IF a >= b THEN 0 ELSE 1 + DoublingsTo(2 * a, b)

\* the binary exponent of a / b: floor(log2(a / b)), a > 0, b > 0
QuotientExponent(a, b) == IF a >= b THEN Halvings(a, b) ELSE -DoublingsTo(a, b)

\* how far tck_ps, the double nearest 2000000 / freq_mhz, lies below the
\* quotient, in units of 2^-k / freq_mhz with k the scale of its significand
TckShortfall(freq_mhz) ==
    LET k == 52 - QuotientExponent(2000000, freq_mhz)
        r == ((2000000 % freq_mhz) * Pow2Mod(k, freq_mhz)) % freq_mhz
    IN  IF 2 * r < freq_mhz THEN r ELSE r - freq_mhz

\* tck_mtb = int(tck_ps / MTB): the rounding of tck_ps never carries the
\* quotient over an integer
TckMtb(freq_mhz) == (2000000 \div MTB) \div freq_mhz

\* taa_mtb = int(cl * tck_ps / MTB): cl * 2000000 / (MTB * freq_mhz) cut to
\* an integer, and one less where the quotient is an integer that the
\* product of cl and a tck_ps below 2000000 / freq_mhz does not reach
TaaMtb(freq_mhz, cl) ==
    LET exact == (cl * (2000000 \div MTB)) \div freq_mhz
        whole == cl > 0 /\ (cl * (2000000 \div MTB)) % freq_mhz = 0
        r == TckShortfall(freq_mhz)
        s == QuotientExponent(cl * 2000000, freq_mhz)
                 - QuotientExponent(2000000, freq_mhz) - 1
        below == IF s >= 0 THEN cl * r > freq_mhz * (2 ^ s)
                 ELSE cl * r * (2 ^ (-s)) > freq_mhz
    IN  IF whole /\ r > 0 /\ below THEN exact - 1 ELSE exact

\* int((voltage - 1.2) * 1000 / 5) as the doubles give it for the voltages
\* of the model: 1.40 gives 39 and 1.10 gives -19
VoltageUnits(mv) ==
    CASE mv = 1100 -> -19
      [] mv = 1200 -> 0
      [] mv = 1250 -> 10
      [] mv = 1350 -> 30
      [] mv = 1400 -> 39
      [] mv = 1500 -> 60

\* data.get(key, default)
DataGet(data, key, default) == IF key \in DOMAIN data THEN data[key] ELSE default

\* byte | bit, for bit a power of two
WithBit(byte, bit) == IF (byte \div bit) % 2 = 1 THEN byte ELSE byte + bit

\* if is_new and self.data_model.get_byte(XMP_HEADER) != 0x0C: ...
WriteXmpHeader(out, is_new) ==
    IF is_new /\ get_byte(out.self, XMP_HEADER) # XMP_MAGIC
    THEN then_set_byte(
             then_set_byte(then_set_byte(out, XMP_HEADER, XMP_MAGIC),
                           XMP_HEADER + 1, 74),
             XMP_REVISION, 32)
    ELSE out

\* the seven bytes of the profile
WriteXmpFields(out, profile_offset, data) ==
    LET freq_mhz == DataGet(data, "frequency", 3200)
        voltage_mv == VoltageUnits(DataGet(data, "voltage", 1350))
        cl == DataGet(data, "cl", 16)
        trcd_mtb == (DataGet(data, "trcd", 18) * 1000) \div MTB
        trp_mtb == (DataGet(data, "trp", 18) * 1000) \div MTB
        tras_mtb == (DataGet(data, "tras", 38) * 1000) \div MTB
        voltage == then_set_byte(out, profile_offset + 0, 128 + (voltage_mv % 64))
        tck == then_set_byte(voltage, profile_offset + 3, TckMtb(freq_mhz))
        taa == then_set_byte(tck, profile_offset + 8, TaaMtb(freq_mhz, cl))
        trcd == then_set_byte(taa, profile_offset + 9, trcd_mtb)
        trp == then_set_byte(trcd, profile_offset + 10, trp_mtb)
        low == then_set_byte(trp, profile_offset + 11, tras_mtb % 256)
    IN  then_set_byte(low, profile_offset + 12, (tras_mtb \div 256) % 256)

\* profile_enabled = get_byte(XMP_PROFILE_ENABLED); |= 0x01 or 0x02; set_byte
\* (WriteXmpEnabled_assigns: the byte assigned the bit, the other bit lost)
WriteXmpEnabled_assigns(out, profile_num) ==
    then_set_byte(out, XMP_PROFILE_ENABLED, IF profile_num = 1 THEN 1 ELSE 2)
WriteXmpEnabled(out, profile_num) ==
    then_set_byte(out, XMP_PROFILE_ENABLED,
                  WithBit(get_byte(out.self, XMP_PROFILE_ENABLED),
                          IF profile_num = 1 THEN 1 ELSE 2))

_write_xmp_profile(self, profile_num, data, is_new) ==
    WriteXmpEnabled(
        WriteXmpFields(WriteXmpHeader(Outcome(self, TRUE, <<>>), is_new),
                       IF profile_num = 1 THEN XMP_PROFILE1_START
                       ELSE XMP_PROFILE2_START,
                       data),
        profile_num)


XMPProfile ==
    [enabled |-> FALSE, voltage |-> 0, frequency |-> 0, tCK |-> 0,
     CL |-> 0, tRCD |-> 0, tRP |-> 0, tRAS |-> 0]

\* the byte at start_offset + offset, 0 beyond the image
XmpByte(data, start_offset, offset) ==
    IF start_offset + offset < Len(data) THEN At(data, start_offset + offset)
    ELSE 0

\* the loop over tck_candidates: the last byte seen between 1 and 19, the
\* loop ending at the first one that gives 1600 to 6000 MT/s;
\* int(2000 / (tck_mtb * MTB / 1000)) is 16000 \div tck_mtb on these bytes
RECURSIVE ScanTck(_, _, _, _)
ScanTck(data, start_offset, tck_candidates, tck_mtb) ==
    IF tck_candidates = <<>> THEN tck_mtb
    ELSE LET byte == XmpByte(data, start_offset, Head(tck_candidates))
         IN  IF 0 < byte /\ byte < 20
             THEN IF 1600 <= (2000000 \div MTB) \div byte
                        /\ (2000000 \div MTB) \div byte <= 6000
                  THEN byte
                  ELSE ScanTck(data, start_offset, Tail(tck_candidates), byte)
             ELSE ScanTck(data, start_offset, Tail(tck_candidates), tck_mtb)

\* round(mtb * MTB / 1000 / tCK) where both are positive, 0 otherwise
Cycles(mtb, tck_mtb) ==
    IF tck_mtb > 0 /\ mtb > 0 THEN RoundQuotient(mtb * MTB, tck_mtb * MTB) ELSE 0

\* the profile after the voltage byte: voltage in millivolts, tCK in
\* picoseconds
EnabledProfile(data, start_offset, tck_mtb, frequency) ==
    [enabled |-> TRUE,
     voltage |-> 1200 + (At(data, start_offset) % 64) * 5,
     frequency |-> IF frequency < 1600 \/ frequency > 6000 THEN 0 ELSE frequency,
     tCK |-> tck_mtb * MTB,
     CL |-> Cycles(XmpByte(data, start_offset, 8), tck_mtb),
     tRCD |-> Cycles(XmpByte(data, start_offset, 9), tck_mtb),
     tRP |-> Cycles(XmpByte(data, start_offset, 10), tck_mtb),
     tRAS |-> Cycles((XmpByte(data, start_offset, 11) % 16) * 256
                         + XmpByte(data, start_offset, 12), tck_mtb)]

TckFrequency(tck_mtb) ==
    IF tck_mtb > 0 THEN (2000000 \div MTB) \div tck_mtb ELSE 0

WithTck(data, start_offset, tck_mtb) ==
    EnabledProfile(data, start_offset, tck_mtb, TckFrequency(tck_mtb))

_parse_xmp_profile(data, start_offset) ==
    IF start_offset + 15 > Len(data) THEN XMPProfile
    ELSE IF At(data, start_offset) = 0 \/ At(data, start_offset) = 255
         THEN XMPProfile
         ELSE WithTck(data, start_offset,
                      ScanTck(data, start_offset, <<3, 2, 1>>, 0))

\* the entry of result["profiles"]; timings stands for the text
\* "CL{CL}-{tRCD}-{tRP}-{tRAS}"
ProfileEntry(name, profile) ==
    IF profile.enabled
    THEN <<[name |-> name, voltage |-> profile.voltage,
            frequency |-> profile.frequency,
            timings |-> <<profile.CL, profile.tRCD, profile.tRP, profile.tRAS>>]>>
    ELSE <<>>

\* parse_xmp listing the profiles whatever the header
parse_xmp_without_magic(data) ==
    IF Len(data) < 440
    THEN [supported |-> FALSE, version |-> "None", profiles |-> <<>>]
    ELSE [supported |-> At(data, XMP_HEADER) = XMP_MAGIC,
          version |-> IF At(data, XMP_HEADER) = XMP_MAGIC THEN "2.0" ELSE "None",
          profiles |->
              ProfileEntry("Profile 1",
                           _parse_xmp_profile(data, XMP_PROFILE1_START))
              \o (IF Len(data) >= 487
                  THEN ProfileEntry("Profile 2",
                                    _parse_xmp_profile(data, XMP_PROFILE2_START))
                  ELSE <<>>)]
parse_xmp(data) ==
    IF Len(data) < 440 \/ At(data, XMP_HEADER) # XMP_MAGIC
    THEN [supported |-> FALSE, version |-> "None", profiles |-> <<>>]
    ELSE [supported |-> TRUE, version |-> "2.0",
          profiles |->
              ProfileEntry("Profile 1",
                           _parse_xmp_profile(data, XMP_PROFILE1_START))
              \o (IF Len(data) >= 487
                  THEN ProfileEntry("Profile 2",
                                    _parse_xmp_profile(data, XMP_PROFILE2_START))
                  ELSE <<>>)]

(***************************************************************************)
(* One XMP request on a loaded model: a profile written and the image      *)
(* parsed again, or the image parsed as it is.                             *)
(***************************************************************************)
XmpWindow(profile_num) ==
    IF profile_num = 1 THEN XMP_PROFILE1_START .. (XMP_PROFILE2_START - 1)
    ELSE XMP_PROFILE2_START .. (2 * XMP_PROFILE2_START - XMP_PROFILE1_START - 1)

\* images with the header, the enabled byte and the voltage byte of each
\* profile given, every other byte of both windows holding fill
XmpImage(header, enabled, first, second, fill) ==
    Image((XMP_HEADER :> header) @@ (XMP_PROFILE_ENABLED :> enabled)
              @@ (XMP_PROFILE1_START :> first) @@ (XMP_PROFILE2_START :> second)
              @@ [o \in XmpWindow(1) \cup XmpWindow(2) |-> fill])

XmpImages ==
    {XmpImage(header, enabled, first, second, fill) :
         header \in {0, XMP_MAGIC, 7}, enabled \in 0 .. 3,
         first \in {0, 255, 158}, second \in {0, 255, 163}, fill \in {0, 5}}

XmpFrequencies == {1600, 1866, 2133, 2400, 2666, 3200, 3600, 6000}

\* the profile of _on_create_profile, profiles in the units the parser
\* shows (cycles), and a profile that leaves keys to their defaults
XmpProfiles ==
    {[frequency |-> f, voltage |-> 1350, cl |-> 16, trcd |-> 18, trp |-> 18,
      tras |-> 38] : f \in XmpFrequencies}
        \cup {[frequency |-> 3200, voltage |-> v, cl |-> 14, trcd |-> 14,
               trp |-> 14, tras |-> 34] : v \in {1100, 1200, 1250, 1400, 1500}}
        \cup {[frequency |-> 2400, voltage |-> 1200, cl |-> 0, trcd |-> 0,
               trp |-> 0, tras |-> 0],
              [frequency |-> 3600, voltage |-> 1350, cl |-> 18, trcd |-> 40,
               trp |-> 22, tras |-> 42],
              [frequency |-> 3600]}

XmpRequests ==
    {[op |-> "_write_xmp_profile", profile_num |-> n, data |-> data,
      is_new |-> is_new] :
         n \in {1, 2}, data \in XmpProfiles, is_new \in BOOLEAN}
        \cup {[op |-> "parse_xmp"]}

InitXmp ==
    /\ request \in XmpRequests
    /\ \E image \in XmpImages : Loaded(image)

SlotStart(profile_num) ==
    IF profile_num = 1 THEN XMP_PROFILE1_START ELSE XMP_PROFILE2_START

\* _on_create_profile / _on_edit_profile: the profile written, then the
\* display refreshed from the image
WriteXmpProfile ==
    /\ request.op = "_write_xmp_profile"
    /\ ~reply.done
    /\ LET out == _write_xmp_profile(Self, request.profile_num, request.data,
                                     request.is_new)
       IN  /\ Effect(out)
           /\ reply' = [done |-> TRUE, xmp |-> parse_xmp(out.self.data),
                        profile |-> _parse_xmp_profile(
                                        out.self.data,
                                        SlotStart(request.profile_num))]
    /\ call' = [op |-> "_write_xmp_profile", profile_num |-> request.profile_num]
    /\ UNCHANGED request

\* the read of the image for display
ParseXmp ==
    /\ request.op = "parse_xmp"
    /\ ~reply.done
    /\ reply' = [done |-> TRUE, xmp |-> parse_xmp(_data),
                 profile |-> _parse_xmp_profile(_data, XMP_PROFILE1_START)]
    /\ call' = [op |-> "parse_xmp"]
    /\ before' = Lifecycle(Self)
    /\ emitted' = <<>>
    /\ delivered' = <<>>
    /\ UNCHANGED <<_data, _original_data, _modified_bytes, _observers, request, pc>>

NextXmp == WriteXmpProfile \/ ParseXmp

SpecXmp == InitXmp /\ [][NextXmp]_vars


Written == reply.done /\ request.op = "_write_xmp_profile"

\* bit number bit (0 or 1) of a byte
BitOf(byte, bit) == (byte \div (2 ^ bit)) % 2

\* C21: after a new profile is written into slot n, byte 384 holds the magic
\* 0x0C, bit n-1 of the enabled byte 386 is set, and the enabled bit of the
\* other slot and every byte of the window of the other slot are as they
\* were before the write.
C21_XmpEncodeFrame ==
    (Written /\ request.is_new) =>
        /\ At(_data, XMP_HEADER) = XMP_MAGIC
        /\ BitOf(At(_data, XMP_PROFILE_ENABLED), request.profile_num - 1) = 1
        /\ BitOf(At(_data, XMP_PROFILE_ENABLED), 2 - request.profile_num)
               = BitOf(At(_original_data, XMP_PROFILE_ENABLED),
                       2 - request.profile_num)
        /\ \A o \in XmpWindow(3 - request.profile_num) :
               At(_data, o) = At(_original_data, o)

\* a new profile 1 written to an image without the magic whose profile 2 is
\* enabled and present
C21_Witness ==
    /\ Written
    /\ request.is_new
    /\ request.profile_num = 1
    /\ At(_original_data, XMP_HEADER) # XMP_MAGIC
    /\ At(_original_data, XMP_PROFILE_ENABLED) = 2
    /\ At(_original_data, XMP_PROFILE2_START) = 163
    /\ At(_original_data, XMP_PROFILE2_START + 3) = 5
    /\ At(_data, XMP_PROFILE_ENABLED) = 3
    /\ At(_data, XMP_PROFILE1_START) # At(_original_data, XMP_PROFILE1_START)

Sentinel(byte) == byte = 0 \/ byte = 255

ProfileNames(xmp) == {xmp.profiles[i].name : i \in DOMAIN xmp.profiles}

\* C22: parse_xmp reports supported exactly when byte 384 holds the magic
\* 0x0C; with the magic a profile is listed exactly when the first byte of
\* its window is neither 0x00 nor 0xFF, and without the magic no profile is
\* listed.
C22_XmpDecodeGating ==
    reply.done =>
        /\ reply.xmp.supported <=> (At(_data, XMP_HEADER) = XMP_MAGIC)
        /\ ("Profile 1" \in ProfileNames(reply.xmp))
               <=> (At(_data, XMP_HEADER) = XMP_MAGIC
                        /\ ~Sentinel(At(_data, XMP_PROFILE1_START)))
        /\ ("Profile 2" \in ProfileNames(reply.xmp))
               <=> (At(_data, XMP_HEADER) = XMP_MAGIC
                        /\ ~Sentinel(At(_data, XMP_PROFILE2_START)))
        /\ Len(reply.xmp.profiles) = Cardinality(ProfileNames(reply.xmp))

\* the magic present, both windows carrying a sentinel, other bytes of the
\* windows and the enabled byte not zero: supported, no profile listed
C22_Witness ==
    /\ reply.done
    /\ request.op = "parse_xmp"
    /\ At(_data, XMP_HEADER) = XMP_MAGIC
    /\ At(_data, XMP_PROFILE1_START) = 0
    /\ At(_data, XMP_PROFILE2_START) = 255
    /\ At(_data, XMP_PROFILE_ENABLED) = 3
    /\ At(_data, XMP_PROFILE1_START + 3) = 5
    /\ reply.xmp.supported
    /\ reply.xmp.profiles = <<>>

\* C23: a new profile written with a frequency between 1600 and 6000 and
\* with cl, trcd, trp and tras decodes from the same slot as an enabled
\* profile with that frequency and those four cycle counts.
C23_XmpRoundTrip ==
    (Written /\ request.is_new) =>
        LET data == request.data
        IN  /\ reply.profile.enabled
            /\ reply.profile.frequency = DataGet(data, "frequency", 3200)
            /\ reply.profile.CL = DataGet(data, "cl", 16)
            /\ reply.profile.tRCD = DataGet(data, "trcd", 18)
            /\ reply.profile.tRP = DataGet(data, "trp", 18)
            /\ reply.profile.tRAS = DataGet(data, "tras", 38)


(***************************************************************************)
(* Bus width and ECC: DDR4Parser.parse_ecc_info                            *)
(* (src/src/core/parser/ddr4.py), read from an image whose byte 13 is any  *)
(* byte.                                                                   *)
(***************************************************************************)
BUS_WIDTH == 13

\* the dict {0b00: 0, 0b01: 8, 0b10: 16, 0b11: 0}.get(ext_code, 0)
ExtensionWidth(ext_code) ==
    CASE ext_code = 0 -> 0
      [] ext_code = 1 -> 8
      [] ext_code = 2 -> 16
      [] ext_code = 3 -> 0
      [] OTHER -> 0

EccInfo(primary_width, extension_width) ==
    [primary_width |-> primary_width,
     extension_width |-> extension_width,
     total_width |-> primary_width + extension_width,
     has_ecc |-> extension_width > 0,
     ecc_type |-> IF extension_width > 0 THEN "ECC" ELSE "Non-ECC"]

parse_ecc_info(data) ==
    EccInfo(8 * (2 ^ (At(data, BUS_WIDTH) % 8)),
            ExtensionWidth((At(data, BUS_WIDTH) \div 8) % 4))

EccImages == {Image((DRAM_TYPE :> DDR4_TYPE) @@ (BUS_WIDTH :> b)) : b \in 0 .. 255}

InitEcc ==
    /\ request = [op |-> "parse_ecc_info"]
    /\ \E image \in EccImages : Loaded(image)

ParseEccInfo ==
    /\ request.op = "parse_ecc_info"
    /\ ~reply.done
    /\ reply' = [done |-> TRUE, ecc |-> parse_ecc_info(DDR4Parser(_data))]
    /\ call' = [op |-> "parse_ecc_info"]
    /\ before' = Lifecycle(Self)
    /\ emitted' = <<>>
    /\ delivered' = <<>>
    /\ UNCHANGED <<_data, _original_data, _modified_bytes, _observers, request, pc>>

NextEcc == ParseEccInfo

SpecEcc == InitEcc /\ [][NextEcc]_vars

\* C24: for every byte 13, parse_ecc_info gives the primary width
\* 8 * 2^(bits 2:0), the extension width 8 when bits 4:3 are 01 and 0 when
\* they are 00, 10 or 11, and has_ecc exactly when the extension width is
\* above 0.
C24_EccDecode ==
    reply.done =>
        LET width_byte == At(_data, BUS_WIDTH)
        IN  /\ reply.ecc.primary_width = 8 * (2 ^ (width_byte % 8))
            /\ reply.ecc.extension_width
                   = (IF (width_byte \div 8) % 4 = 1 THEN 8 ELSE 0)
            /\ reply.ecc.has_ecc <=> reply.ecc.extension_width > 0


(***************************************************************************)
(* Die inference: infer_die_type and _parse_hynix_die_revision             *)
(* (src/src/core/parser/die_database.py).  Part numbers and manufacturer   *)
(* names are texts; a result is <<>> for None or <<entry>>.                *)
(***************************************************************************)
\* "Samsung", "Micron", "SK Hynix"
TextSamsung == <<83, 97, 109, 115, 117, 110, 103>>
TextMicron == <<77, 105, 99, 114, 111, 110>>
TextSKHynix == <<83, 75, 32, 72, 121, 110, 105, 120>>

\* the keys are the letters A B C D E F J M
HYNIX_DIE_REVISION ==
    <<[key |-> 65, die_type |-> "A-die", process |-> "21nm (Deneb)", manufacturer |-> TextSKHynix],
      [key |-> 66, die_type |-> "B-die", process |-> "18nm (M17B)", manufacturer |-> TextSKHynix],
      [key |-> 67, die_type |-> "C-die", process |-> "1ynm", manufacturer |-> TextSKHynix],
      [key |-> 68, die_type |-> "D-die", process |-> "1znm", manufacturer |-> TextSKHynix],
      [key |-> 69, die_type |-> "E-die", process |-> "1anm", manufacturer |-> TextSKHynix],
      [key |-> 70, die_type |-> "F-die", process |-> "25nm (Legacy)", manufacturer |-> TextSKHynix],
      [key |-> 74, die_type |-> "J-die", process |-> "20nm", manufacturer |-> TextSKHynix],
      [key |-> 77, die_type |-> "M-die", process |-> "20nm", manufacturer |-> TextSKHynix]>>

\* the keys are the prefixes M378A M378B M391A M391B M393A M393B M386A
\* M386B MTA MTB MTC
DIE_DATABASE ==
    <<[key |-> <<77, 51, 55, 56, 65>>, die_type |-> "A-die", process |-> "20nm",
       manufacturer |-> TextSamsung],
      [key |-> <<77, 51, 55, 56, 66>>, die_type |-> "B-die", process |-> "18nm",
       manufacturer |-> TextSamsung],
      [key |-> <<77, 51, 57, 49, 65>>, die_type |-> "A-die", process |-> "20nm",
       manufacturer |-> TextSamsung],
      [key |-> <<77, 51, 57, 49, 66>>, die_type |-> "B-die", process |-> "18nm",
       manufacturer |-> TextSamsung],
      [key |-> <<77, 51, 57, 51, 65>>, die_type |-> "A-die", process |-> "20nm",
       manufacturer |-> TextSamsung],
      [key |-> <<77, 51, 57, 51, 66>>, die_type |-> "B-die", process |-> "18nm",
       manufacturer |-> TextSamsung],
      [key |-> <<77, 51, 56, 54, 65>>, die_type |-> "B-die", process |-> "18nm",
       manufacturer |-> TextSamsung],
      [key |-> <<77, 51, 56, 54, 66>>, die_type |-> "B-die", process |-> "18nm",
       manufacturer |-> TextSamsung],
      [key |-> <<77, 84, 65>>, die_type |-> "Rev-A", process |-> "20nm",
       manufacturer |-> TextMicron],
      [key |-> <<77, 84, 66>>, die_type |-> "Rev-B", process |-> "16nm",
       manufacturer |-> TextMicron],
      [key |-> <<77, 84, 67>>, die_type |-> "Rev-C", process |-> "14nm",
       manufacturer |-> TextMicron]>>

\* table[key].copy() where the key is in the table, None otherwise
Lookup(table, key) ==
    IF \E i \in 1 .. Len(table) : table[i].key = key
    THEN LET found == table[CHOOSE i \in 1 .. Len(table) : table[i].key = key]
         IN  <<[die_type |-> found.die_type, process |-> found.process,
                manufacturer |-> found.manufacturer]>>
    ELSE <<>>

\* text.lower()
lower(text) ==
    [i \in 1 .. Len(text) |-> IF text[i] \in 65 .. 90 THEN text[i] + 32 ELSE text[i]]

\* text.startswith(prefix)
startswith(text, prefix) ==
    Len(text) >= Len(prefix) /\ SubSeq(text, 1, Len(prefix)) = prefix

\* needle in text
Contains(text, needle) ==
    \E i \in 0 .. Len(text) - Len(needle) : SubSeq(text, i + 1, i + Len(needle)) = needle

\* the part of _parse_hynix_die_revision after strip().upper()
HynixRevision(part_number) ==
    IF ~startswith(part_number, <<72, 77, 65>>) THEN <<>>
    ELSE IF FindPair(part_number, 82, 55) = 0
              \/ FindPair(part_number, 82, 55) + 1 >= Len(part_number)
         THEN <<>>
         ELSE Lookup(HYNIX_DIE_REVISION,
                     part_number[FindPair(part_number, 82, 55) + 2])

_parse_hynix_die_revision(part_number) ==
    IF part_number = <<>> \/ Len(part_number) < 10 THEN <<>>
    ELSE HynixRevision(upper(Strip(part_number)))

\* the loop over the prefix lengths, from length down to 3
RECURSIVE MatchPrefix(_, _, _)
MatchPrefix(part_number, manufacturer, length) ==
    IF length <= 2 THEN <<>>
    ELSE IF Lookup(DIE_DATABASE, SubSeq(part_number, 1, length)) = <<>>
         THEN MatchPrefix(part_number, manufacturer, length - 1)
         ELSE IF manufacturer # <<>>
                   /\ ~Contains(lower(Lookup(DIE_DATABASE,
                                             SubSeq(part_number, 1, length))[1].manufacturer),
                                lower(manufacturer))
              THEN MatchPrefix(part_number, manufacturer, length - 1)
              ELSE Lookup(DIE_DATABASE, SubSeq(part_number, 1, length))

\* infer_die_type after strip().upper()
InferCleaned(part_number, manufacturer) ==
    IF startswith(part_number, <<72, 77, 65>>)
           /\ _parse_hynix_die_revision(part_number) # <<>>
    THEN _parse_hynix_die_revision(part_number)
    ELSE MatchPrefix(part_number, manufacturer,
                     IF Len(part_number) < 6 THEN Len(part_number) ELSE 6)

infer_die_type(part_number, manufacturer) ==
    IF part_number = <<>> THEN <<>>
    ELSE InferCleaned(upper(Strip(part_number)), manufacturer)

\* part numbers as parse_part_number may give them
DieParts ==
    {<<72, 77, 65, 66, 65, 71, 82, 55, 65, 52, 82, 52, 78, 45, 87, 82>>,    \* "HMABAGR7A4R4N-WR"
     <<72, 77, 65, 56, 50, 71, 82, 55, 65, 70, 82, 56, 78, 45, 86, 75>>,    \* "HMA82GR7AFR8N-VK"
     <<72, 77, 65, 56, 49, 71, 85, 54, 65, 70, 82, 56, 78, 45, 85, 72>>,    \* "HMA81GU6AFR8N-UH"
     <<104, 109, 97, 56, 50, 103, 114, 55, 99, 106, 114, 56, 110, 45, 120, 110>>,    \* "hma82gr7cjr8n-xn"
     <<72, 77, 65, 56, 50, 71, 82, 55>>,    \* "HMA82GR7"
     <<72, 77, 65, 52, 49, 71, 82, 55, 90, 90, 90, 90, 90>>,    \* "HMA41GR7ZZZZZ"
     <<32, 72, 77, 65, 56, 50, 71, 82, 55, 77, 70, 82, 52, 78, 32>>,    \* " HMA82GR7MFR4N "
     <<77, 51, 55, 56, 65, 49, 75, 52, 51, 67, 66, 50, 45, 67, 84, 68>>,    \* "M378A1K43CB2-CTD"
     <<77, 51, 57, 51, 66, 50, 71, 55, 48, 66, 72, 48>>,    \* "M393B2G70BH0"
     <<77, 51, 56, 54, 65, 56, 75, 52, 48, 66, 77, 49, 45, 67, 82, 67>>,    \* "M386A8K40BM1-CRC"
     <<32, 109, 51, 55, 56, 98, 53, 49, 55, 51, 32>>,    \* " m378b5173 "
     <<77, 84, 65, 49, 56, 65, 83, 70, 50, 71, 55, 50, 80, 90, 45, 50, 71, 57>>,    \* "MTA18ASF2G72PZ-2G9"
     <<77, 84, 66, 52>>,    \* "MTB4"
     <<77, 84, 67, 56, 67, 49, 48, 56, 52, 83, 49, 83, 67, 52, 56, 66, 65, 49>>,    \* "MTC8C1084S1SC48BA1"
     <<75, 86, 82, 50, 52, 78, 49, 55, 83, 56, 47, 56>>,    \* "KVR24N17S8/8"
     <<>>,    \* ""
     <<32, 32, 32>>,    \* "   "
     <<77, 84>>,    \* "MT"
     <<77, 51, 55>>}    \* "M37"

\* manufacturer names with their text and the manufacturer of the entries
\* of the same vendor (the text itself where there is none)
DieManufacturers ==
    {[name |-> "Samsung", text |-> <<83, 97, 109, 115, 117, 110, 103>>,
      vendor |-> TextSamsung],
     [name |-> "SK Hynix", text |-> <<83, 75, 32, 72, 121, 110, 105, 120>>,
      vendor |-> TextSKHynix],
     [name |-> "Micron Technology", text |-> <<77, 105, 99, 114, 111, 110, 32, 84, 101, 99, 104, 110, 111, 108, 111, 103, 121>>,
      vendor |-> TextMicron],
     [name |-> "Micron", text |-> <<77, 105, 99, 114, 111, 110>>,
      vendor |-> TextMicron],
     [name |-> "Kingston", text |-> <<75, 105, 110, 103, 115, 116, 111, 110>>,
      vendor |-> <<75, 105, 110, 103, 115, 116, 111, 110>>],
     [name |-> "samsung", text |-> <<115, 97, 109, 115, 117, 110, 103>>,
      vendor |-> TextSamsung],
     [name |-> "Sam", text |-> <<83, 97, 109>>,
      vendor |-> TextSamsung],
     [name |-> "", text |-> <<>>,
      vendor |-> <<>>]}

DieRequests ==
    {[op |-> "infer_die_type", part_number |-> part, manufacturer |-> manufacturer] :
         part \in DieParts, manufacturer \in DieManufacturers}

InitDie ==
    /\ request \in DieRequests
    /\ Loaded(Image((DRAM_TYPE :> DDR4_TYPE)))

\* infer_die_type(part_number, manufacturer) as to_dict calls it
InferDieType ==
    /\ request.op = "infer_die_type"
    /\ ~reply.done
    /\ reply' = [done |-> TRUE,
                 inferred |-> infer_die_type(request.part_number,
                                             request.manufacturer.text)]
    /\ call' = [op |-> "infer_die_type"]
    /\ before' = Lifecycle(Self)
    /\ emitted' = <<>>
    /\ delivered' = <<>>
    /\ UNCHANGED <<_data, _original_data, _modified_bytes, _observers, request, pc>>

NextDie == InferDieType

SpecDie == InitDie /\ [][NextDie]_vars

\* the part number has a prefix in DIE_DATABASE whose entry is of the vendor
VendorPrefix(part_number, vendor) ==
    \E length \in 3 .. 6 :
        /\ length <= Len(part_number)
        /\ Lookup(DIE_DATABASE, SubSeq(part_number, 1, length)) # <<>>
        /\ Lookup(DIE_DATABASE, SubSeq(part_number, 1, length))[1].manufacturer = vendor

\* C26: for a manufacturer name that is not empty, infer_die_type returns
\* no match or an entry of the vendor the name stands for, on the HMA...R7x
\* path and on the prefix path; and a name of the registry is matched with
\* the entries of its vendor: a part number with a prefix of that vendor in
\* the table gets a match.
C26_DieInferenceConsistent ==
    (reply.done /\ request.manufacturer.text # <<>>) =>
        /\ reply.inferred # <<>>
               => reply.inferred[1].manufacturer = request.manufacturer.vendor
        /\ (request.manufacturer.name \in RegistryNames
                /\ VendorPrefix(upper(Strip(request.part_number)),
                                request.manufacturer.vendor))
               => reply.inferred # <<>>


\* C25: every time parse_timings returns (tCK, tAA, tRCD, tRP, tRAS, tRC,
\* tRFC1, tRFC2, tRFC4, tFAW, tRRD_S, tRRD_L, tCCD_L, tWR, tWTR_S, tWTR_L)
\* and CL are non-negative for every image, those with a small MTB byte and
\* a negative fine offset included.
C25_TimingsNonNegative ==
    reply.done => \A field \in DOMAIN reply.timing : reply.timing[field] >= 0


\* the value of the request does not fit its field
TimingMisfit ==
    \/ request.value_ns < 0
    \/ request.value_ns \div MTB > MaxMtb(request.key)

\* C27: when the value given to _write_timing does not fit its field (an MTB
\* count above 255 for tCK, tAA, tRCD and tRP, above 4095 for tRAS and tRC,
\* or a negative value), no byte of the image changes and the caller is
\* told of the failure.
C27_TimingEncodeNeverPartial ==
    (reply.done /\ request.op = "_write_timing" /\ TimingMisfit) =>
        /\ _data = _original_data
        /\ call.ret # None


\* the JEDEC bin speeds
BinSpeeds == {1600, 1866, 2133, 2400, 2666, 2933, 3200}

\* C28: after the speed_grade edit writes a bin speed S (1600, 1866, 2133,
\* 2400, 2666, 2933 or 3200) to a valid DDR4 image, parse_speed_grade
\* returns S.
C28_SpeedGradeRoundTrip ==
    (/\ reply.done
     /\ request.op = "_on_field_changed"
     /\ request.key = "speed_grade"
     /\ int(request.text, 10).ok
     /\ int(request.text, 10).value \in BinSpeeds
     /\ is_valid(_original_data))
        => reply.speed_grade = int(request.text, 10).value


(***************************************************************************)
(* Two threads on one model: SPDApp._run_read (src/src/gui/app.py) runs on *)
(* a thread of its own and calls load_from_list there, while the UI thread *)
(* serves HexEditorTab._on_byte_changed, which calls set_byte.  The model  *)
(* holds no lock, so the threads interleave between the statements of      *)
(* load_from_list and set_byte (src/src/core/model.py); pc holds the       *)
(* statement each thread is at and old_value, the local of set_byte.       *)
(***************************************************************************)
ThreadImages == {ByteList(SPD_SIZE, 0), ByteList(SPD_SIZE, 1)}

\* the read gives an image or, from a faulty device, a short list
ReadResults == ThreadImages \cup {ByteList(SPD_SIZE - 1, 1)}

ThreadRequests ==
    {[op |-> "threads", data |-> data, offset |-> offset, value |-> value] :
         data \in ReadResults, offset \in {0, 1, SPD_SIZE}, value \in {0, 1, 7}}

\* the model before the read: an image loaded, as it is or with byte 0
\* edited to 7
ThreadModels ==
    {Fields(image, image, {}) : image \in ThreadImages}
        \cup {set_byte(Fields(image, image, {}), 0, 7).self : image \in ThreadImages}

\* _start_read has started the worker, which is about to call
\* load_from_list(data), and the user has edited a byte in the hex view
InitThreads ==
    /\ request \in ThreadRequests
    /\ \E self \in ThreadModels :
           /\ _data = self.data
           /\ _original_data = self.original_data
           /\ _modified_bytes = self.modified_bytes
           /\ before = Lifecycle(self)
    /\ _observers = <<>>
    /\ call = [op |-> "_start_read"]
    /\ emitted = <<>>
    /\ delivered = <<>>
    /\ reply = NoReply
    /\ pc = [worker |-> "load_from_list", ui |-> "set_byte", old_value |-> 0]

Worker(from, to) == pc.worker = from /\ pc' = [pc EXCEPT !.worker = to]

Ui(from, to) == pc.ui = from /\ pc' = [pc EXCEPT !.ui = to]

\* if len(data) != SPD_SIZE: return False
LoadCheck ==
    /\ Worker("load_from_list",
              IF Len(request.data) # SPD_SIZE THEN "returned False" ELSE "_data")
    /\ UNCHANGED <<_data, _original_data, _modified_bytes, _observers, call,
                   before, emitted, delivered, request, reply>>

\* self._data = data.copy()
LoadData ==
    /\ Worker("_data", "_original_data")
    /\ _data' = request.data
    /\ UNCHANGED <<_original_data, _modified_bytes, _observers, call, before,
                   emitted, delivered, request, reply>>

\* self._original_data = data.copy()
LoadOriginal ==
    /\ Worker("_original_data", "clear")
    /\ _original_data' = request.data
    /\ UNCHANGED <<_data, _modified_bytes, _observers, call, before, emitted,
                   delivered, request, reply>>

\* self._modified_bytes.clear()
LoadClear ==
    /\ Worker("clear", "_notify_observers")
    /\ _modified_bytes' = {}
    /\ UNCHANGED <<_data, _original_data, _observers, call, before, emitted,
                   delivered, request, reply>>

\* self._notify_observers(DataChangeEvent(DATA_LOADED)); return True
LoadNotify ==
    /\ Worker("_notify_observers", "returned True")
    /\ emitted' = emitted \o Emit(Self, PlainEvent(DATA_LOADED))
    /\ delivered' = delivered \o _notify_observers(_observers,
                                                   PlainEvent(DATA_LOADED), {})
    /\ UNCHANGED <<_data, _original_data, _modified_bytes, _observers, call,
                   before, request, reply>>

\* if not (0 <= offset < SPD_SIZE) or not (0 <= value <= 255): return False
SetCheck ==
    /\ Ui("set_byte",
          IF ~(0 <= request.offset /\ request.offset < SPD_SIZE)
                 \/ ~(0 <= request.value /\ request.value <= 255)
          THEN "returned False" ELSE "old_value")
    /\ UNCHANGED <<_data, _original_data, _modified_bytes, _observers, call,
                   before, emitted, delivered, request, reply>>

\* old_value = self._data[offset]
SetOld ==
    /\ pc.ui = "old_value"
    /\ pc' = [pc EXCEPT !.ui = "compare", !.old_value = At(_data, request.offset)]
    /\ UNCHANGED <<_data, _original_data, _modified_bytes, _observers, call,
                   before, emitted, delivered, request, reply>>

\* if old_value == value: return True
SetCompare ==
    /\ Ui("compare", IF pc.old_value = request.value THEN "returned True" ELSE "write")
    /\ UNCHANGED <<_data, _original_data, _modified_bytes, _observers, call,
                   before, emitted, delivered, request, reply>>

\* self._data[offset] = value
SetWrite ==
    /\ Ui("write", "test")
    /\ _data' = ListSet(_data, request.offset, request.value)
    /\ UNCHANGED <<_original_data, _modified_bytes, _observers, call, before,
                   emitted, delivered, request, reply>>

\* if self._original_data: if self._data[offset] != self._original_data[offset]:
\* ... elif offset in self._modified_bytes:
SetTest ==
    /\ Ui("test",
          IF ~Truthy(_original_data) THEN "_notify_observers"
          ELSE IF At(_data, request.offset) # At(_original_data, request.offset)
               THEN "add"
               ELSE IF request.offset \in _modified_bytes THEN "discard"
                    ELSE "_notify_observers")
    /\ UNCHANGED <<_data, _original_data, _modified_bytes, _observers, call,
                   before, emitted, delivered, request, reply>>

\* self._modified_bytes.add(offset)
SetAdd ==
    /\ Ui("add", "_notify_observers")
    /\ _modified_bytes' = _modified_bytes \cup {request.offset}
    /\ UNCHANGED <<_data, _original_data, _observers, call, before, emitted,
                   delivered, request, reply>>

\* self._modified_bytes.discard(offset)
SetDiscard ==
    /\ Ui("discard", "_notify_observers")
    /\ _modified_bytes' = _modified_bytes \ {request.offset}
    /\ UNCHANGED <<_data, _original_data, _observers, call, before, emitted,
                   delivered, request, reply>>

\* self._notify_observers(DataChangeEvent(BYTE_CHANGED, ...)); return True
SetNotify ==
    /\ Ui("_notify_observers", "returned True")
    /\ emitted' = emitted \o Emit(Self, ByteChangedEvent(request.offset, pc.old_value,
                                                         request.value))
    /\ delivered' = delivered
           \o _notify_observers(_observers,
                                ByteChangedEvent(request.offset, pc.old_value,
                                                 request.value), {})
    /\ UNCHANGED <<_data, _original_data, _modified_bytes, _observers, call,
                   before, request, reply>>

NextThreads ==
    \/ LoadCheck
    \/ LoadData
    \/ LoadOriginal
    \/ LoadClear
    \/ LoadNotify
    \/ SetCheck
    \/ SetOld
    \/ SetCompare
    \/ SetWrite
    \/ SetTest
    \/ SetAdd
    \/ SetDiscard
    \/ SetNotify

SpecThreads == InitThreads /\ [][NextThreads]_vars

Returned(position) == position \in {"returned True", "returned False"}

\* the thread is between the first and the last statement of its mutator
Inside(position, entry) == position # entry /\ ~Returned(position)

\* C29: load_from_list on the worker thread and set_byte on the UI thread
\* never run at the same time, and when both have returned the dirty set
\* holds exactly the offsets whose byte differs from the baseline.
C29_SingleWriter ==
    /\ ~(Inside(pc.worker, "load_from_list") /\ Inside(pc.ui, "set_byte"))
    /\ (Returned(pc.worker) /\ Returned(pc.ui)) => DirtyInvariant(Self)


(***************************************************************************)
(* Callbacks that register and unregister observers while they are being   *)
(* notified.  clear() assigns the fields and calls _notify_observers, whose *)
(* for loop walks the list self._observers itself: the list iterator keeps  *)
(* an index into the list, and takes the element at that index for as long  *)
(* as the index is below the length the list has at that moment.            *)
(*   pc.ui      the statement the loop is at                               *)
(*   pc.index   the index the list iterator holds                          *)
(*   call       clear(), with the observers registered when it emitted     *)
(*   request    what each callback does when it is called                  *)
(*   reply      the callbacks removed during the notification              *)
(***************************************************************************)
NotifyCallbacks == {"cb1", "cb2", "cb3"}

\* the lists add_observer can build: no callback twice
ObserverLists ==
    {list \in UNION {[1 .. n -> NotifyCallbacks] : n \in 0 .. Cardinality(NotifyCallbacks)} :
        Cardinality(Elements(list)) = Len(list)}

\* what a callback does with the event: return, raise, or call add_observer
\* or remove_observer of the model and return
Reactions ==
    {<<"return">>, <<"raise">>}
        \cup {<<"add_observer", callback>> : callback \in NotifyCallbacks}
        \cup {<<"remove_observer", callback>> : callback \in NotifyCallbacks}

InitNotify ==
    /\ _data = ZeroList(SPD_SIZE)
    /\ _original_data = None
    /\ _observers \in ObserverLists
    /\ _modified_bytes = {}
    /\ call = [op |-> "__init__"]
    /\ before = "Empty"
    /\ emitted = <<>>
    /\ delivered = <<>>
    /\ request \in [op : {"clear"}, reaction : [NotifyCallbacks -> Reactions]]
    /\ reply = [done |-> FALSE, removed |-> {}]
    /\ pc = [worker |-> "none", ui |-> "clear", index |-> 0]

\* clear() up to its call of _notify_observers, and iter(self._observers)
ClearEmit ==
    LET out == clear(Self)
    IN  /\ pc.ui = "clear"
        /\ pc' = [pc EXCEPT !.ui = "for", !.index = 0]
        /\ _data' = out.self.data
        /\ _original_data' = out.self.original_data
        /\ _modified_bytes' = out.self.modified_bytes
        /\ before' = Lifecycle(Self)
        /\ emitted' = out.events
        /\ call' = [op |-> "clear", observers |-> _observers]
        /\ UNCHANGED <<_observers, delivered, request, reply>>

\* for callback in self._observers: the next element, or the end of the loop
\* and of clear()
NotifyFor ==
    /\ pc.ui = "for"
    /\ IF pc.index < Len(_observers)
       THEN /\ pc' = [pc EXCEPT !.ui = "callback", !.index = pc.index + 1]
            /\ UNCHANGED reply
       ELSE /\ pc' = [pc EXCEPT !.ui = "returned"]
            /\ reply' = [reply EXCEPT !.done = TRUE]
    /\ UNCHANGED <<_data, _original_data, _modified_bytes, _observers, call,
                   before, emitted, delivered, request>>

\* the callback the loop holds, and the record of its call
Current == _observers[pc.index]

Called(callback, raised) ==
    Append(delivered, [callback |-> callback, event |-> PlainEvent(DATA_RESET),
                       raised |-> raised])

\* callback(event) returns
CallReturn ==
    /\ pc.ui = "callback"
    /\ request.reaction[Current] = <<"return">>
    /\ pc' = [pc EXCEPT !.ui = "for"]
    /\ delivered' = Called(Current, FALSE)
    /\ UNCHANGED <<_data, _original_data, _modified_bytes, _observers, call,
                   before, emitted, request, reply>>

\* callback(event) raises: except Exception prints and the loop goes on
CallRaise ==
    /\ pc.ui = "callback"
    /\ request.reaction[Current] = <<"raise">>
    /\ pc' = [pc EXCEPT !.ui = "for"]
    /\ delivered' = Called(Current, TRUE)
    /\ UNCHANGED <<_data, _original_data, _modified_bytes, _observers, call,
                   before, emitted, request, reply>>

\* callback(event) calls add_observer and returns
CallAdd ==
    /\ pc.ui = "callback"
    /\ request.reaction[Current][1] = "add_observer"
    /\ pc' = [pc EXCEPT !.ui = "for"]
    /\ _observers' = add_observer(_observers, request.reaction[Current][2])
    /\ delivered' = Called(Current, FALSE)
    /\ UNCHANGED <<_data, _original_data, _modified_bytes, call, before,
                   emitted, request, reply>>

\* callback(event) calls remove_observer and returns
CallRemove ==
    /\ pc.ui = "callback"
    /\ request.reaction[Current][1] = "remove_observer"
    /\ pc' = [pc EXCEPT !.ui = "for"]
    /\ _observers' = remove_observer(_observers, request.reaction[Current][2])
    /\ reply' = [reply EXCEPT !.removed =
                     @ \cup ({request.reaction[Current][2]} \cap Elements(_observers))]
    /\ delivered' = Called(Current, FALSE)
    /\ UNCHANGED <<_data, _original_data, _modified_bytes, call, before,
                   emitted, request>>

NextNotify ==
    \/ ClearEmit
    \/ NotifyFor
    \/ CallReturn
    \/ CallRaise
    \/ CallAdd
    \/ CallRemove

SpecNotify == InitNotify /\ [][NextNotify]_vars

\* how many times the callback was called
CallsOf(callback) ==
    Cardinality({i \in 1 .. Len(delivered) : delivered[i].callback = callback})

\* C30: when the notification of an event has ended, every observer that was
\* registered when the event was emitted and was not removed during the
\* notification has been called exactly once, whatever the callbacks added
\* or removed; and no callback is registered twice.
C30_NotifyComplete ==
    /\ Cardinality(Elements(_observers)) = Len(_observers)
    /\ pc.ui = "returned" =>
           \A callback \in Elements(call.observers) \ reply.removed :
               CallsOf(callback) = 1

====
